---------------------------- MODULE Spec2Model ----------------------------
(***************************************************************************)
(* Occupancy-grid mapper of software/advanced_mapping.py (AdvancedMapper). *)
(*                                                                         *)
(* The grid is the numpy array occupancy_map, indexed occupancy_map[y][x]. *)
(* Distances are Python floats in centimetres; they are modelled in fixed  *)
(* point, as an integer number of tenths of a centimetre.  math.cos and    *)
(* math.sin are modelled on the multiples of 45 degrees by a table scaled  *)
(* by 10**5, and round() is Python's round-half-to-even.                   *)
(***************************************************************************)
EXTENDS Integers, Sequences, FiniteSets, TLC

VARIABLES
    occupancy_map,  \* self.occupancy_map : [y -> [x -> state]]
    car_x,          \* self.car_x
    car_y,          \* self.car_y
    car_angle,      \* self.car_angle
    scan_history,   \* self.scan_history
    hw_log,         \* what the last sweep did to hw['servo'] and hw['ultrasonic']
    us_distances,   \* what hw['ultrasonic'] measures: the k-th read of a sweep
    snapshot,       \* the array the caller holds from its last get_map()
    call,           \* the last method called, with its arguments
    ret,            \* the value that call returned
    raised,         \* the exception that call raised, or "none"
    ncalls,         \* number of method calls made so far
    files,          \* the files on disk that np.save wrote: name -> array
    saved,          \* the last save_map call: its filename and the grid then
    pc,             \* where the running script is, "idle" when none runs
    motors,         \* the motor commands that reached the hardware, in order
    status,         \* the exit status of the script's process, None while it runs
    loop_i,         \* the i of "for i in range(5)" in test_obstacle_avoidance
    person_present, \* VisionOverride.person_present
    stop_until_ts,  \* VisionOverride.stop_until_ts
    updates         \* the VisionOverride.update calls made so far

vars == <<occupancy_map, car_x, car_y, car_angle, scan_history, hw_log,
          us_distances, snapshot, call, ret, raised, ncalls, files, saved,
          pc, motors, status, loop_i, person_present, stop_until_ts, updates>>

\* What the methods of the mapper other than save_map and load_map leave alone.
disk == <<files, saved>>

\* The state of the mapper and of the hardware it sweeps with.
mapper == <<occupancy_map, car_x, car_y, car_angle, scan_history, hw_log,
            us_distances, snapshot, ncalls>>

\* The state of a script run: obstacle_avoidance.py or test_locomotion.py.
scripts == <<pc, motors, status, loop_i>>

\* The state of a VisionOverride object and the calls made on it.
vision == <<person_present, stop_until_ts, updates>>

-----------------------------------------------------------------------------
(* Configuration (advanced_mapping.py lines 20-32) *)

MAP_SIZE == 100
MAP_CENTER == MAP_SIZE \div 2
MAX_DISTANCE == 100
OBSTACLE_THRESHOLD == 80

UNKNOWN == -1
FREE == 0
OCCUPIED == 1

\* Exploration bound: number of method calls on one mapper.
MaxCalls == 2

\* Python's None, and an optional argument (<<>> for None, <<v>> for v).
None == <<>>
Some(v) == <<v>>

\* A distance given in whole centimetres, in the model's tenths.
Cm(n) == n * 10

-----------------------------------------------------------------------------
(* Arithmetic of the Python run time *)

\* 10**5 * math.cos(radians(a)) for a multiple of 45 degrees.
CosTable(a) ==
    CASE a = 0   -> 100000
      [] a = 45  -> 70711
      [] a = 90  -> 0
      [] a = 135 -> -70711
      [] a = 180 -> -100000
      [] a = 225 -> -70711
      [] a = 270 -> 0
      [] a = 315 -> 70711

\* distance (tenths of a cm) times cos / sin, as a numerator over TrigDen.
TrigDen == 10 * 100000
MulCos(distance, angle_deg) == distance * CosTable(angle_deg % 360)
MulSin(distance, angle_deg) == distance * CosTable((angle_deg - 90) % 360)

\* int(round(base + num / TrigDen)) for an integer base: round half to even.
RoundSum(base, num) ==
    LET q == num \div TrigDen
        r == num % TrigDen
        b == base + q
    IN  IF 2 * r < TrigDen THEN b
        ELSE IF 2 * r > TrigDen THEN b + 1
        ELSE IF b % 2 = 0 THEN b ELSE b + 1

Max(a, b) == IF a > b THEN a ELSE b
Min(a, b) == IF a < b THEN a ELSE b
Abs(a) == IF a < 0 THEN -a ELSE a

-----------------------------------------------------------------------------
(* AdvancedMapper *)

InGrid(x, y) == 0 <= x /\ x < MAP_SIZE /\ 0 <= y /\ y < MAP_SIZE

EmptyMap == [y \in 0 .. MAP_SIZE - 1 |-> [x \in 0 .. MAP_SIZE - 1 |-> UNKNOWN]]

\* polar_to_cartesian as it would be if it moved an outside cell to the edge.
polar_to_cartesian_clamped(angle_deg, distance_cm, cx, cy, ca) ==
    LET total_angle == ca - angle_deg
        x_int == RoundSum(cx, MulCos(distance_cm, total_angle))
        y_int == RoundSum(cy, MulSin(distance_cm, total_angle))
    IN  <<Max(0, Min(MAP_SIZE - 1, x_int)), Max(0, Min(MAP_SIZE - 1, y_int))>>

\* polar_to_cartesian as it would be with cos and sin exchanged.
polar_to_cartesian_swapped(angle_deg, distance_cm, cx, cy, ca) ==
    LET total_angle == ca - angle_deg
        x_int == RoundSum(cx, MulSin(distance_cm, total_angle))
        y_int == RoundSum(cy, MulCos(distance_cm, total_angle))
    IN  IF InGrid(x_int, y_int) THEN <<x_int, y_int>> ELSE None

\* polar_to_cartesian with the pose already resolved.
polar_to_cartesian(angle_deg, distance_cm, cx, cy, ca) ==
    LET total_angle == ca - angle_deg
        x_int == RoundSum(cx, MulCos(distance_cm, total_angle))
        y_int == RoundSum(cy, MulSin(distance_cm, total_angle))
    IN  IF InGrid(x_int, y_int) THEN <<x_int, y_int>> ELSE None

\* ray_step as it would be if the loop overwrote obstacles.
ray_step_overwrite(s, dx, dy, sx, sy, x2, y2) ==
    IF s.x = x2 /\ s.y = y2 THEN s
    ELSE LET e2 == 2 * s.err
             err1 == IF e2 > -dy THEN s.err - dy ELSE s.err
         IN  [m |-> IF InGrid(s.x, s.y)
                    THEN [s.m EXCEPT ![s.y][s.x] = FREE]
                    ELSE s.m,
              x |-> IF e2 > -dy THEN s.x + sx ELSE s.x,
              y |-> IF e2 < dx THEN s.y + sy ELSE s.y,
              err |-> IF e2 < dx THEN err1 + dx ELSE err1,
              cells |-> Append(s.cells, <<s.x, s.y>>)]

\* The state of the while loop of mark_free_space: the grid, the loop's
\* variables x, y and err, and the cells visited so far (one per iteration).
\* One evaluation of the loop: its body when the guard holds, else nothing.
\* The loop body as it would be without its bounds test: numpy takes an
\* index in -N .. -1 from the other end of the axis.
ray_step_wrap(s, dx, dy, sx, sy, x2, y2) ==
    IF s.x = x2 /\ s.y = y2 THEN s
    ELSE LET e2 == 2 * s.err
             err1 == IF e2 > -dy THEN s.err - dy ELSE s.err
             wx == s.x % MAP_SIZE
             wy == s.y % MAP_SIZE
         IN  [m |-> IF /\ -MAP_SIZE <= s.x /\ s.x < MAP_SIZE
                       /\ -MAP_SIZE <= s.y /\ s.y < MAP_SIZE
                       /\ s.m[wy][wx] # OCCUPIED
                    THEN [s.m EXCEPT ![wy][wx] = FREE]
                    ELSE s.m,
              x |-> IF e2 > -dy THEN s.x + sx ELSE s.x,
              y |-> IF e2 < dx THEN s.y + sy ELSE s.y,
              err |-> IF e2 < dx THEN err1 + dx ELSE err1,
              cells |-> Append(s.cells, <<s.x, s.y>>)]

\* ray_step as it would be if an iteration advanced along one axis only.
ray_step_one_axis(s, dx, dy, sx, sy, x2, y2) ==
    IF s.x = x2 /\ s.y = y2 THEN s
    ELSE LET e2 == 2 * s.err
         IN  [m |-> IF InGrid(s.x, s.y) /\ s.m[s.y][s.x] # OCCUPIED
                    THEN [s.m EXCEPT ![s.y][s.x] = FREE]
                    ELSE s.m,
              x |-> IF e2 > -dy THEN s.x + sx ELSE s.x,
              y |-> IF e2 > -dy THEN s.y ELSE s.y + sy,
              err |-> IF e2 > -dy THEN s.err - dy ELSE s.err + dx,
              cells |-> Append(s.cells, <<s.x, s.y>>)]

ray_step(s, dx, dy, sx, sy, x2, y2) ==
    IF s.x = x2 /\ s.y = y2 THEN s
    ELSE LET e2 == 2 * s.err
             err1 == IF e2 > -dy THEN s.err - dy ELSE s.err
         IN  [m |-> IF InGrid(s.x, s.y) /\ s.m[s.y][s.x] # OCCUPIED
                    THEN [s.m EXCEPT ![s.y][s.x] = FREE]
                    ELSE s.m,
              x |-> IF e2 > -dy THEN s.x + sx ELSE s.x,
              y |-> IF e2 < dx THEN s.y + sy ELSE s.y,
              err |-> IF e2 < dx THEN err1 + dx ELSE err1,
              cells |-> Append(s.cells, <<s.x, s.y>>)]

\* At most k evaluations of the loop, one after the other, stopping at the
\* loop's exit (split in halves to keep the evaluation shallow).
RECURSIVE ray_iterate(_, _, _, _, _, _, _, _)
ray_iterate(s, k, dx, dy, sx, sy, x2, y2) ==
    IF k = 0 THEN s
    ELSE IF k = 1 THEN ray_step(s, dx, dy, sx, sy, x2, y2)
    ELSE LET h == k \div 2
             s1 == ray_iterate(s, h, dx, dy, sx, sy, x2, y2)
         IN  IF s1.x = x2 /\ s1.y = y2 THEN s1
             ELSE ray_iterate(s1, k - h, dx, dy, sx, sy, x2, y2)

\* The loop of mark_free_space run from (x1, y1): every iteration moves x or
\* y one cell towards (x2, y2), so dx + dy evaluations reach the exit.
ray_loop(m, x1, y1, x2, y2) ==
    LET dx == Abs(x2 - x1)
        dy == Abs(y2 - y1)
        sx == IF x1 < x2 THEN 1 ELSE -1
        sy == IF y1 < y2 THEN 1 ELSE -1
    IN  ray_iterate([m |-> m, x |-> x1, y |-> y1, err |-> dx - dy, cells |-> <<>>],
                    dx + dy, dx, dy, sx, sy, x2, y2)

\* mark_free_space as it would be if the walk started one cell after (x1, y1).
mark_free_space_skip_start(m, x1, y1, x2, y2) ==
    IF InGrid(x1, y1)
    THEN [ray_loop(m, x1, y1, x2, y2).m EXCEPT ![y1][x1] = m[y1][x1]]
    ELSE ray_loop(m, x1, y1, x2, y2).m

mark_free_space(m, x1, y1, x2, y2) == ray_loop(m, x1, y1, x2, y2).m

\* gated as it would be without the obstacle threshold.
gated_no_threshold(distance) ==
    \/ distance <= 0
    \/ distance >= Cm(MAX_DISTANCE)

\* The gate of update_map_from_scan: TRUE when the sample is skipped.
gated(distance) ==
    \/ distance <= 0
    \/ distance >= Cm(MAX_DISTANCE)
    \/ distance > Cm(OBSTACLE_THRESHOLD)

\* scan_sample as it would be if every hit were counted, new or not.
scan_sample_count_all(acc, sample, cx, cy, ca) ==
    LET angle == sample[1]
        distance == sample[2]
        hit_pos == polar_to_cartesian(angle, distance, cx, cy, ca)
    IN  IF gated(distance) THEN acc
        ELSE IF hit_pos = None THEN acc
        ELSE LET x_hit == hit_pos[1]
                 y_hit == hit_pos[2]
                 m1 == mark_free_space(acc.map, cx, cy, x_hit, y_hit)
             IN  [map |-> [m1 EXCEPT ![y_hit][x_hit] = OCCUPIED],
                  obstacles_found |-> acc.obstacles_found + 1]

\* scan_sample as it would be if a hit were recorded on Unknown cells only.
scan_sample_unknown_only(acc, sample, cx, cy, ca) ==
    LET angle == sample[1]
        distance == sample[2]
        hit_pos == polar_to_cartesian(angle, distance, cx, cy, ca)
    IN  IF gated(distance) THEN acc
        ELSE IF hit_pos = None THEN acc
        ELSE LET x_hit == hit_pos[1]
                 y_hit == hit_pos[2]
                 m1 == mark_free_space(acc.map, cx, cy, x_hit, y_hit)
             IN  IF m1[y_hit][x_hit] = UNKNOWN
                 THEN [map |-> [m1 EXCEPT ![y_hit][x_hit] = OCCUPIED],
                       obstacles_found |-> acc.obstacles_found + 1]
                 ELSE [map |-> m1, obstacles_found |-> acc.obstacles_found]

\* One iteration of the for loop of update_map_from_scan.
scan_sample(acc, sample, cx, cy, ca) ==
    LET angle == sample[1]
        distance == sample[2]
        hit_pos == polar_to_cartesian(angle, distance, cx, cy, ca)
    IN  IF gated(distance) THEN acc
        ELSE IF hit_pos = None THEN acc
        ELSE LET x_hit == hit_pos[1]
                 y_hit == hit_pos[2]
                 m1 == mark_free_space(acc.map, cx, cy, x_hit, y_hit)
             IN  IF m1[y_hit][x_hit] # OCCUPIED
                 THEN [map |-> [m1 EXCEPT ![y_hit][x_hit] = OCCUPIED],
                       obstacles_found |-> acc.obstacles_found + 1]
                 ELSE [map |-> m1, obstacles_found |-> acc.obstacles_found]

RECURSIVE scan_loop(_, _, _, _, _, _)
scan_loop(acc, scan_data, i, cx, cy, ca) ==
    IF i > Len(scan_data) THEN acc
    ELSE scan_loop(scan_sample(acc, scan_data[i], cx, cy, ca),
                   scan_data, i + 1, cx, cy, ca)

\* update_map_from_scan as it would be if it counted the samples it was given.
update_map_from_scan_count_samples(m, scan_data, cx, cy, ca) ==
    [map |-> scan_loop([map |-> m, obstacles_found |-> 0], scan_data, 1, cx, cy, ca).map,
     obstacles_found |-> Len(scan_data)]

update_map_from_scan(m, scan_data, cx, cy, ca) ==
    scan_loop([map |-> m, obstacles_found |-> 0], scan_data, 1, cx, cy, ca)

\* update_car_position as it would be without the "keep within bounds" lines.
update_car_position_unclamped(x, y, angle, distance_cm, delta_angle_deg) ==
    LET a1 == (angle + delta_angle_deg) % 360
        x1 == x + RoundSum(0, MulCos(distance_cm, a1))
        y1 == y + RoundSum(0, MulSin(distance_cm, a1))
    IN  IF distance_cm > 0
        THEN [x |-> x1, y |-> y1, angle |-> a1]
        ELSE [x |-> x, y |-> y, angle |-> a1]

\* update_car_position as it would be if it translated before it rotated.
update_car_position_translate_first(x, y, angle, distance_cm, delta_angle_deg) ==
    LET a1 == (angle + delta_angle_deg) % 360
        x1 == x + RoundSum(0, MulCos(distance_cm, angle))
        y1 == y + RoundSum(0, MulSin(distance_cm, angle))
    IN  IF distance_cm > 0
        THEN [x |-> Max(0, Min(MAP_SIZE - 1, x1)),
              y |-> Max(0, Min(MAP_SIZE - 1, y1)),
              angle |-> a1]
        ELSE [x |-> x, y |-> y, angle |-> a1]

\* update_car_position as it would be if a move leaving the grid were dropped.
update_car_position_drop_move(x, y, angle, distance_cm, delta_angle_deg) ==
    LET a1 == (angle + delta_angle_deg) % 360
        x1 == x + RoundSum(0, MulCos(distance_cm, a1))
        y1 == y + RoundSum(0, MulSin(distance_cm, a1))
    IN  IF distance_cm > 0 /\ InGrid(x1, y1)
        THEN [x |-> x1, y |-> y1, angle |-> a1]
        ELSE [x |-> x, y |-> y, angle |-> a1]

\* update_car_position as it would be if a negative distance drove backwards.
update_car_position_reverse(x, y, angle, distance_cm, delta_angle_deg) ==
    LET a1 == (angle + delta_angle_deg) % 360
        x1 == x + RoundSum(0, MulCos(distance_cm, a1))
        y1 == y + RoundSum(0, MulSin(distance_cm, a1))
    IN  IF distance_cm # 0
        THEN [x |-> Max(0, Min(MAP_SIZE - 1, x1)),
              y |-> Max(0, Min(MAP_SIZE - 1, y1)),
              angle |-> a1]
        ELSE [x |-> x, y |-> y, angle |-> a1]

update_car_position(x, y, angle, distance_cm, delta_angle_deg) ==
    LET a1 == (angle + delta_angle_deg) % 360
        x1 == x + RoundSum(0, MulCos(distance_cm, a1))
        y1 == y + RoundSum(0, MulSin(distance_cm, a1))
    IN  IF distance_cm > 0
        THEN [x |-> Max(0, Min(MAP_SIZE - 1, x1)),
              y |-> Max(0, Min(MAP_SIZE - 1, y1)),
              angle |-> a1]
        ELSE [x |-> x, y |-> y, angle |-> a1]

\* The file names used: the default of save_map and load_map, and one
\* without the .npy ending.
FileNames == {"map.npy", "map"}

\* No file written yet.
NoFiles == [f \in FileNames |-> None]

\* np.save(filename, ...) writes to filename, with .npy appended when the
\* name does not end in it.
npy_name(filename) == IF filename = "map" THEN "map.npy" ELSE filename

\* save_map: the files after np.save(filename, self.occupancy_map).
save_map(disk_files, m, filename) ==
    [disk_files EXCEPT ![npy_name(filename)] = Some(m)]

\* load_map: np.load(filename) reads the file of exactly that name.
load_map(disk_files, m, filename) ==
    IF disk_files[filename] = None
    THEN [map |-> m, raised |-> "FileNotFoundError"]
    ELSE [map |-> disk_files[filename][1], raised |-> "none"]

\* get_map as it would be if it returned self.occupancy_map itself.
get_map_alias(m) == [held |-> TRUE, shared |-> TRUE, map |-> m]

\* get_map: the caller holds a new array with the values of the grid.
get_map(m) == [held |-> TRUE, shared |-> FALSE, map |-> m]

\* The caller's array after the mapper wrote cells of its own array in place
\* (self.occupancy_map[y, x] = ...): the same array shows the writes, a copy
\* does not.
written(snap, m) == IF snap.shared THEN [snap EXCEPT !.map = m] ELSE snap

\* The caller's array after the mapper bound self.occupancy_map to a new
\* array: it is no longer the mapper's array.
rebound(snap) == [snap EXCEPT !.shared = FALSE]

-----------------------------------------------------------------------------
(* The sweep: scan_environment and interpolate_scan.  Its distances are      *)
(* Python floats; here a distance is an exact ratio <<num, den>> of tenths   *)
(* of a centimetre, den > 0, so that the interpolation divides exactly.      *)

Ratio(num, den) == <<num, den>>
Less(a, b) == a[1] * b[2] < b[1] * a[2]

\* Python's a // b for b # 0.
FloorDiv(a, b) == IF b > 0 THEN a \div b ELSE (-a) \div (-b)

\* range as it would be if it stopped one short, as range(start, stop - 1, step).
range_short(start, stop, step) ==
    LET n == IF step > 0
             THEN Max(0, FloorDiv(stop - 1 - start + step - 1, step))
             ELSE Max(0, FloorDiv(start - stop + 1 - step - 1, -step))
    IN  [k \in 1 .. n |-> start + (k - 1) * step]

\* Python's range(start, stop, step) for step # 0, as a sequence.
range(start, stop, step) ==
    LET n == IF step > 0
             THEN Max(0, FloorDiv(stop - start + step - 1, step))
             ELSE Max(0, FloorDiv(start - stop - step - 1, -step))
    IN  [k \in 1 .. n |-> start + (k - 1) * step]

\* dist1 + (dist2 - dist1) * t with t = j / num_points.
Lerp(dist1, dist2, j, num_points) ==
    Ratio(dist1[1] * dist2[2] * num_points
              + (dist2[1] * dist1[2] - dist1[1] * dist2[2]) * j,
          dist1[2] * dist2[2] * num_points)

\* interp_points as it would be with a sub-step of 5 whatever the step.
interp_points_fixed_step(s1, s2, step) ==
    LET interp_step == 5
        num_points == FloorDiv(Abs(s2[1] - s1[1]), interp_step)
        dir == IF s2[1] > s1[1] THEN 1 ELSE -1
    IN  IF num_points > 1
        THEN [j \in 1 .. num_points - 1 |->
                 <<s1[1] + j * interp_step * dir,
                   Lerp(s1[2], s2[2], j, num_points)>>]
        ELSE <<>>

\* interp_points as it would be if the inner loop ran through num_points.
interp_points_through_end(s1, s2, step) ==
    LET interp_step == Min(5, FloorDiv(step, 2))
        num_points == FloorDiv(Abs(s2[1] - s1[1]), interp_step)
        dir == IF s2[1] > s1[1] THEN 1 ELSE -1
    IN  IF num_points > 1
        THEN [j \in 1 .. num_points |->
                 <<s1[1] + j * interp_step * dir,
                   Lerp(s1[2], s2[2], j, num_points)>>]
        ELSE <<>>

\* The points put between two neighbouring samples.
interp_points(s1, s2, step) ==
    LET interp_step == Min(5, FloorDiv(step, 2))
        num_points == FloorDiv(Abs(s2[1] - s1[1]), interp_step)
        dir == IF s2[1] > s1[1] THEN 1 ELSE -1
    IN  IF num_points > 1
        THEN [j \in 1 .. num_points - 1 |->
                 <<s1[1] + j * interp_step * dir,
                   Lerp(s1[2], s2[2], j, num_points)>>]
        ELSE <<>>

\* for i in range(len(scan_data) - 1): the sample i and the points after it.
RECURSIVE interp_loop(_, _, _)
interp_loop(scan_data, i, step) ==
    IF i > Len(scan_data) - 1
    THEN <<>>
    ELSE <<scan_data[i]>> \o interp_points(scan_data[i], scan_data[i + 1], step)
             \o interp_loop(scan_data, i + 1, step)

\* interpolate_scan as it would be if it divided by the sub-step before it
\* looked at the length of the list.
interpolate_scan_divide_first(scan_data, step) ==
    IF Min(5, FloorDiv(step, 2)) = 0
    THEN [ret |-> None, raised |-> "ZeroDivisionError"]
    ELSE IF Len(scan_data) < 2
         THEN [ret |-> scan_data, raised |-> "none"]
         ELSE [ret |-> Append(interp_loop(scan_data, 1, step),
                              scan_data[Len(scan_data)]),
               raised |-> "none"]

\* interpolate_scan: the returned list, or the exception of the division by
\* interp_step = min(5, step // 2) when that is 0.
interpolate_scan(scan_data, step) ==
    IF Len(scan_data) < 2
    THEN [ret |-> scan_data, raised |-> "none"]
    ELSE IF Min(5, FloorDiv(step, 2)) = 0
         THEN [ret |-> None, raised |-> "ZeroDivisionError"]
         ELSE [ret |-> Append(interp_loop(scan_data, 1, step),
                              scan_data[Len(scan_data)]),
               raised |-> "none"]

\* The validity test as it would be if it kept a reading of MAX_DISTANCE.
valid_reading_inclusive(distance) ==
    Less(Ratio(0, 1), distance) /\ ~Less(Ratio(Cm(MAX_DISTANCE), 1), distance)

\* if 0 < distance < MAX_DISTANCE
valid_reading(distance) ==
    Less(Ratio(0, 1), distance) /\ Less(distance, Ratio(Cm(MAX_DISTANCE), 1))

\* us.get_distance() (or us.read()): the k-th measurement of a sweep.
get_distance(us, k) == us[((k - 1) % Len(us)) + 1]

\* One bearing of the sweep as it would be if it read before it aimed.
sweep_step_read_first(acc, angle, distance) ==
    [log |-> acc.log \o <<[op |-> "get_distance", distance |-> distance],
                          [op |-> "set_angle", angle |-> angle]>>,
     scan_data |-> IF valid_reading(distance)
                   THEN Append(acc.scan_data, <<angle, distance>>)
                   ELSE acc.scan_data]

\* One bearing of the sweep: aim the servo, read, keep or skip the reading.
sweep_step(acc, angle, distance) ==
    [log |-> acc.log \o <<[op |-> "set_angle", angle |-> angle],
                          [op |-> "get_distance", distance |-> distance]>>,
     scan_data |-> IF valid_reading(distance)
                   THEN Append(acc.scan_data, <<angle, distance>>)
                   ELSE acc.scan_data]

\* for angle in angles
RECURSIVE sweep_loop(_, _, _, _)
sweep_loop(acc, angles, us, k) ==
    IF k > Len(angles)
    THEN acc
    ELSE sweep_loop(sweep_step(acc, angles[k], get_distance(us, k)),
                    angles, us, k + 1)

\* scan_environment: what it did to the hardware, scan_history after it, and
\* what it returned or raised.  range() raises ValueError for step = 0,
\* before anything else is done.
scan_environment(history, us, angle_min, angle_max, step, interpolate) ==
    IF step = 0
    THEN [log |-> <<>>, scan_history |-> history, ret |-> None,
          raised |-> "ValueError"]
    ELSE LET angles == range(angle_min, angle_max + 1, step)
             swept == sweep_loop([log |-> <<>>, scan_data |-> <<>>],
                                 angles, us, 1)
             r == IF interpolate
                  THEN interpolate_scan(swept.scan_data, step)
                  ELSE [ret |-> swept.scan_data, raised |-> "none"]
         IN  [log |-> Append(swept.log, [op |-> "set_angle", angle |-> 0]),
              scan_history |-> swept.scan_data,
              ret |-> r.ret,
              raised |-> r.raised]

\* An optional pose argument: the argument if given, else the attribute.
Default(opt, attr) == IF opt = None THEN attr ELSE opt[1]

-----------------------------------------------------------------------------
(* Inputs *)

\* The optional (car_x, car_y, car_angle) arguments of a call.
NoPose == <<None, None, None>>
CornerPose == <<Some(5), Some(5), Some(45)>>
TurnedPose == <<None, None, Some(180)>>
PoseArgs == {NoPose, CornerPose, TurnedPose}

\* Samples of which update_map_from_scan accepts none.
GatedScan == <<<<0, Cm(85)>>, <<0, Cm(100)>>, <<0, 0>>, <<0, Cm(-10)>>>>

ScanLists ==
    {<<>>,
     <<<<-90, Cm(10)>>>>,
     <<<<0, Cm(10)>>>>,
     <<<<0, Cm(5)>>, <<0, Cm(10)>>>>,
     <<<<0, Cm(10)>>, <<0, Cm(5)>>>>,
     <<<<0, Cm(10)>>, <<0, Cm(10)>>>>,
     <<<<90, Cm(85)>>, <<0, Cm(10)>>>>,
     <<<<0, Cm(60)>>, <<-90, Cm(10)>>>>,
     <<<<45, Cm(30)>>>>,
     <<<<0, 3>>>>,
     GatedScan}

\* The calls of update_map_from_scan: <<scan_data, pose arguments>>.
ScanCalls ==
    (ScanLists \X {NoPose})
        \cup {<<GatedScan, CornerPose>>,
              <<<<<<0, Cm(80)>>, <<0, Cm(85)>>>>, CornerPose>>,
              <<<<<<0, Cm(10)>>>>, TurnedPose>>}

\* The calls of polar_to_cartesian: <<angle_deg, distance_cm>> and a pose.
PolarInputs == {<<0, Cm(10)>>, <<0, Cm(60)>>, <<90, Cm(10)>>, <<0, 3>>}

MoveDistances == {Cm(-5), 0, Cm(10), Cm(1000)}
MoveAngles == {-90, 0, 45, 90}

\* The calls of mark_free_space: <<x1, y1, x2, y2>>.
RayCalls ==
    {<<50, 50, 50, 60>>, <<57, 53, 45, 38>>, <<50, 50, 50, 50>>, <<-3, 50, 4, 52>>}

\* Pairs of grid cells: equal cells, the four axis directions, the four
\* diagonals, a shallow and a steep pair in every octant, and long pairs
\* between the corners of the grid.
WalkCalls ==
    {<<50, 50, 50, 50>>, <<0, 0, 0, 0>>,
     <<50, 50, 58, 50>>, <<50, 50, 42, 50>>, <<50, 50, 50, 58>>, <<50, 50, 50, 42>>,
     <<50, 50, 56, 56>>, <<50, 50, 44, 56>>, <<50, 50, 56, 44>>, <<50, 50, 44, 44>>,
     <<50, 50, 59, 53>>, <<50, 50, 53, 59>>, <<50, 50, 47, 59>>, <<50, 50, 41, 53>>,
     <<50, 50, 41, 47>>, <<50, 50, 47, 41>>, <<50, 50, 53, 41>>, <<50, 50, 59, 47>>,
     <<10, 20, 90, 70>>, <<57, 53, 45, 38>>,
     <<0, 0, MAP_SIZE - 1, MAP_SIZE - 1>>, <<MAP_SIZE - 1, 0, 0, MAP_SIZE - 1>>,
     <<MAP_SIZE - 1, MAP_SIZE - 1, 0, 1>>, <<3, MAP_SIZE - 1, 4, 0>>}

\* What the mock ultrasonic sensor measures: base_distance 50 cm with noise.
MockDistances == <<Ratio(Cm(50), 1), Ratio(Cm(47), 1), Ratio(Cm(53), 1)>>

\* What a sensor may measure on the first, second and third read of a sweep
\* (and again from the fourth on): in range, 0, negative, 100 cm, just
\* inside either end of the range.
SensorScripts ==
    LET a == Ratio(Cm(30), 1)
        b == Ratio(Cm(60), 1)
        z == Ratio(0, 1)
        n == Ratio(Cm(-1), 1)
        m == Ratio(Cm(MAX_DISTANCE), 1)
        h == Ratio(5, 1)
        t == Ratio(Cm(MAX_DISTANCE) - 1, 1)
    IN  {<<a, b, a>>, <<a, z, b>>, <<z, a, b>>, <<a, b, m>>, <<z, n, m>>,
         <<m, a, n>>, <<h, t, a>>, <<b, b, b>>, <<a, m, a>>, <<n, b, a>>,
         <<t, z, h>>, <<a, a, b>>}

\* The calls of scan_environment: <<angle_min, angle_max, step, interpolate>>.
SweepCalls ==
    {<<-90, 90, 15, TRUE>>, <<0, 30, 15, TRUE>>, <<0, 30, 15, FALSE>>,
     <<0, 10, 4, FALSE>>, <<30, 30, 15, TRUE>>, <<10, 50, 20, TRUE>>,
     <<0, 2, 1, TRUE>>, <<0, 10, 0, TRUE>>}

\* The calls of interpolate_scan: <<scan_data, step>>.
InterpolateCalls ==
    LET one == <<<<0, Ratio(Cm(10), 1)>>>>
        pair == <<<<0, Ratio(Cm(10), 1)>>, <<30, Ratio(Cm(20), 1)>>>>
    IN  {<<<<>>, 15>>, <<<<>>, 1>>, <<<<>>, 0>>,
         <<one, 15>>, <<one, 1>>, <<one, 0>>,
         <<pair, 15>>, <<pair, 1>>, <<pair, 2>>,
         <<<<<<0, Ratio(Cm(10), 1)>>, <<5, Ratio(Cm(20), 1)>>>>, 4>>,
         <<<<<<0, Ratio(Cm(10), 1)>>, <<3, Ratio(405, 1)>>>>, 3>>,
         <<<<<<-15, Ratio(Cm(20), 1)>>, <<0, Ratio(Cm(50), 1)>>,
             <<45, Ratio(Cm(30), 1)>>>>, 15>>,
         <<<<<<30, Ratio(Cm(20), 1)>>, <<0, Ratio(Cm(10), 1)>>>>, 15>>,
         <<<<<<0, Ratio(Cm(10), 1)>>, <<0, Ratio(Cm(20), 1)>>>>, 15>>}

\* What a caller writes into the array it got from get_map: <<x, y, state>>.
SnapshotWrites == {<<50, 50, OCCUPIED>>, <<50, 55, FREE>>}

-----------------------------------------------------------------------------
(* Behaviour *)

\* No script is running and no motor command was issued.
NoScript ==
    /\ pc = "idle"
    /\ motors = <<>>
    /\ status = None
    /\ loop_i = 0

\* VisionOverride.__init__, no update made yet.
NoVision ==
    /\ person_present = FALSE
    /\ stop_until_ts = 0
    /\ updates = <<>>

Init ==
    /\ occupancy_map = EmptyMap
    /\ car_x = MAP_CENTER
    /\ car_y = MAP_CENTER
    /\ car_angle = 0
    /\ scan_history = <<>>
    /\ hw_log = <<>>
    /\ us_distances = MockDistances
    /\ snapshot = [held |-> FALSE, shared |-> FALSE, map |-> EmptyMap]
    /\ call = [op |-> "__init__", args |-> <<>>]
    /\ ret = None
    /\ raised = "none"
    /\ ncalls = 0
    /\ files = NoFiles
    /\ saved = None
    /\ NoScript
    /\ NoVision

PolarToCartesian ==
    \E s \in PolarInputs, p \in PoseArgs :
        /\ ncalls < MaxCalls
        /\ call' = [op |-> "polar_to_cartesian", args |-> <<s[1], s[2], p>>]
        /\ ret' = polar_to_cartesian(s[1], s[2], Default(p[1], car_x),
                                     Default(p[2], car_y), Default(p[3], car_angle))
        /\ raised' = "none"
        /\ ncalls' = ncalls + 1
        /\ UNCHANGED <<disk, scripts, vision>>
        /\ UNCHANGED <<occupancy_map, car_x, car_y, car_angle, scan_history,
                       hw_log, us_distances, snapshot>>

\* update_map_from_scan as it would be if it kept the pose it was given.
UpdateMapFromScan_adopt_pose ==
    \E c \in ScanCalls :
        LET scan_data == c[1]
            p == c[2]
            r == update_map_from_scan(occupancy_map, scan_data,
                                      Default(p[1], car_x), Default(p[2], car_y),
                                      Default(p[3], car_angle))
        IN  /\ ncalls < MaxCalls
            /\ occupancy_map' = r.map
            /\ car_x' = Default(p[1], car_x)
            /\ car_y' = Default(p[2], car_y)
            /\ car_angle' = Default(p[3], car_angle)
            /\ call' = [op |-> "update_map_from_scan", args |-> <<scan_data, p>>]
            /\ ret' = r.obstacles_found
            /\ snapshot' = written(snapshot, r.map)
            /\ raised' = "none"
            /\ ncalls' = ncalls + 1
            /\ UNCHANGED <<disk, scripts, vision>>
            /\ UNCHANGED <<scan_history, hw_log, us_distances>>

UpdateMapFromScan ==
    \E c \in ScanCalls :
        LET scan_data == c[1]
            p == c[2]
            r == update_map_from_scan(occupancy_map, scan_data,
                                      Default(p[1], car_x), Default(p[2], car_y),
                                      Default(p[3], car_angle))
        IN  /\ ncalls < MaxCalls
            /\ occupancy_map' = r.map
            /\ call' = [op |-> "update_map_from_scan", args |-> <<scan_data, p>>]
            /\ ret' = r.obstacles_found
            /\ snapshot' = written(snapshot, r.map)
            /\ raised' = "none"
            /\ ncalls' = ncalls + 1
            /\ UNCHANGED <<disk, scripts, vision>>
            /\ UNCHANGED <<car_x, car_y, car_angle, scan_history, hw_log,
                           us_distances>>

MarkFreeSpace ==
    \E a \in RayCalls :
        /\ ncalls < MaxCalls
        /\ occupancy_map' = mark_free_space(occupancy_map, a[1], a[2], a[3], a[4])
        /\ call' = [op |-> "mark_free_space", args |-> a]
        /\ ret' = None
        /\ snapshot' = written(snapshot, occupancy_map')
        /\ raised' = "none"
        /\ ncalls' = ncalls + 1
        /\ UNCHANGED <<disk, scripts, vision>>
        /\ UNCHANGED <<car_x, car_y, car_angle, scan_history, hw_log,
                       us_distances>>

\* mark_free_space called with pairs of grid cells of every direction.
MarkFreeSpaceAny ==
    \E a \in WalkCalls :
        /\ ncalls < MaxCalls
        /\ occupancy_map' = mark_free_space(occupancy_map, a[1], a[2], a[3], a[4])
        /\ call' = [op |-> "mark_free_space", args |-> a]
        /\ ret' = None
        /\ snapshot' = written(snapshot, occupancy_map')
        /\ raised' = "none"
        /\ ncalls' = ncalls + 1
        /\ UNCHANGED <<disk, scripts, vision>>
        /\ UNCHANGED <<car_x, car_y, car_angle, scan_history, hw_log,
                       us_distances>>

UpdateCarPosition ==
    \E distance_cm \in MoveDistances, delta_angle_deg \in MoveAngles :
        LET r == update_car_position(car_x, car_y, car_angle,
                                     distance_cm, delta_angle_deg)
        IN  /\ ncalls < MaxCalls
            /\ car_x' = r.x
            /\ car_y' = r.y
            /\ car_angle' = r.angle
            /\ call' = [op |-> "update_car_position",
                        args |-> <<distance_cm, delta_angle_deg>>]
            /\ ret' = None
            /\ raised' = "none"
            /\ ncalls' = ncalls + 1
            /\ UNCHANGED <<disk, scripts, vision>>
            /\ UNCHANGED <<occupancy_map, scan_history, hw_log, us_distances,
                           snapshot>>

\* clear_map as it would be if it kept the obstacles.
ClearMap_keep_occupied ==
    /\ ncalls < MaxCalls
    /\ occupancy_map' =
           [y \in 0 .. MAP_SIZE - 1 |-> [x \in 0 .. MAP_SIZE - 1 |->
               IF occupancy_map[y][x] = OCCUPIED THEN OCCUPIED ELSE UNKNOWN]]
    /\ call' = [op |-> "clear_map", args |-> <<>>]
    /\ ret' = None
    /\ snapshot' = rebound(snapshot)
    /\ raised' = "none"
    /\ ncalls' = ncalls + 1
    /\ UNCHANGED <<disk, scripts, vision>>
    /\ UNCHANGED <<car_x, car_y, car_angle, scan_history, hw_log,
                   us_distances>>

ClearMap ==
    /\ ncalls < MaxCalls
    /\ occupancy_map' = EmptyMap
    /\ call' = [op |-> "clear_map", args |-> <<>>]
    /\ ret' = None
    /\ snapshot' = rebound(snapshot)
    /\ raised' = "none"
    /\ ncalls' = ncalls + 1
    /\ UNCHANGED <<disk, scripts, vision>>
    /\ UNCHANGED <<car_x, car_y, car_angle, scan_history, hw_log,
                   us_distances>>

\* get_map(): the returned array is kept in snapshot.
GetMap ==
    /\ ncalls < MaxCalls
    /\ snapshot' = get_map(occupancy_map)
    /\ call' = [op |-> "get_map", args |-> <<>>]
    /\ ret' = None
    /\ raised' = "none"
    /\ ncalls' = ncalls + 1
    /\ UNCHANGED <<disk, scripts, vision>>
    /\ UNCHANGED <<occupancy_map, car_x, car_y, car_angle, scan_history,
                   hw_log, us_distances>>

\* The caller writes a cell of the array it got from get_map.
WriteSnapshot ==
    \E w \in SnapshotWrites :
        /\ ncalls < MaxCalls
        /\ snapshot.held
        /\ snapshot' = [snapshot EXCEPT !.map[w[2]][w[1]] = w[3]]
        /\ occupancy_map' = IF snapshot.shared THEN snapshot'.map
                            ELSE occupancy_map
        /\ call' = [op |-> "snapshot_write", args |-> w]
        /\ ret' = None
        /\ raised' = "none"
        /\ ncalls' = ncalls + 1
        /\ UNCHANGED <<disk, scripts, vision>>
        /\ UNCHANGED <<car_x, car_y, car_angle, scan_history, hw_log,
                       us_distances>>

SaveMap ==
    \E filename \in FileNames :
        /\ ncalls < MaxCalls
        /\ files' = save_map(files, occupancy_map, filename)
        /\ saved' = Some([filename |-> filename, map |-> occupancy_map])
        /\ call' = [op |-> "save_map", args |-> <<filename>>]
        /\ ret' = None
        /\ raised' = "none"
        /\ ncalls' = ncalls + 1
        /\ UNCHANGED <<occupancy_map, car_x, car_y, car_angle, scan_history,
                       hw_log, us_distances, snapshot>>
        /\ UNCHANGED <<scripts, vision>>

LoadMap ==
    \E filename \in FileNames :
        LET r == load_map(files, occupancy_map, filename)
        IN  /\ ncalls < MaxCalls
            /\ occupancy_map' = r.map
            /\ snapshot' = IF r.raised = "none" THEN rebound(snapshot)
                           ELSE snapshot
            /\ call' = [op |-> "load_map", args |-> <<filename>>]
            /\ ret' = None
            /\ raised' = r.raised
            /\ ncalls' = ncalls + 1
            /\ UNCHANGED <<car_x, car_y, car_angle, scan_history, hw_log,
                           us_distances, files, saved>>
            /\ UNCHANGED <<scripts, vision>>

ScanEnvironment ==
    \E c \in SweepCalls :
        LET r == scan_environment(scan_history, us_distances,
                                  c[1], c[2], c[3], c[4])
        IN  /\ ncalls < MaxCalls
            /\ scan_history' = r.scan_history
            /\ hw_log' = r.log
            /\ call' = [op |-> "scan_environment", args |-> c]
            /\ ret' = r.ret
            /\ raised' = r.raised
            /\ ncalls' = ncalls + 1
            /\ UNCHANGED <<disk, scripts, vision>>
            /\ UNCHANGED <<occupancy_map, car_x, car_y, car_angle,
                           us_distances, snapshot>>

InterpolateScan ==
    \E c \in InterpolateCalls :
        LET r == interpolate_scan(c[1], c[2])
        IN  /\ ncalls < MaxCalls
            /\ call' = [op |-> "interpolate_scan", args |-> c]
            /\ ret' = r.ret
            /\ raised' = r.raised
            /\ ncalls' = ncalls + 1
            /\ UNCHANGED <<disk, scripts, vision>>
            /\ UNCHANGED <<occupancy_map, car_x, car_y, car_angle,
                           scan_history, hw_log, us_distances, snapshot>>

Next ==
    \/ PolarToCartesian
    \/ UpdateMapFromScan
    \/ MarkFreeSpace
    \/ UpdateCarPosition
    \/ ClearMap
    \/ ScanEnvironment
    \/ GetMap
    \/ WriteSnapshot

Spec == Init /\ [][Next]_vars

\* The sweep on its own, with a sensor that measures anything.
SweepInit ==
    /\ occupancy_map = EmptyMap
    /\ car_x = MAP_CENTER
    /\ car_y = MAP_CENTER
    /\ car_angle = 0
    /\ scan_history = <<>>
    /\ hw_log = <<>>
    /\ us_distances \in SensorScripts
    /\ snapshot = [held |-> FALSE, shared |-> FALSE, map |-> EmptyMap]
    /\ call = [op |-> "__init__", args |-> <<>>]
    /\ ret = None
    /\ raised = "none"
    /\ ncalls = 0
    /\ files = NoFiles
    /\ saved = None
    /\ NoScript
    /\ NoVision

SweepNext ==
    \/ ScanEnvironment
    \/ InterpolateScan

SweepSpec == SweepInit /\ [][SweepNext]_vars

\* A grid of obstacles only, and a grid with Free and Occupied cells.
FullMap == [y \in 0 .. MAP_SIZE - 1 |-> [x \in 0 .. MAP_SIZE - 1 |-> OCCUPIED]]
MixedMap ==
    update_map_from_scan(EmptyMap, <<<<0, Cm(10)>>, <<90, Cm(5)>>>>,
                         MAP_CENTER, MAP_CENTER, 0).map

\* Saving and loading, from an empty, a full or a mixed grid.
PersistInit ==
    /\ occupancy_map \in {EmptyMap, FullMap, MixedMap}
    /\ car_x = MAP_CENTER
    /\ car_y = MAP_CENTER
    /\ car_angle = 0
    /\ scan_history = <<>>
    /\ hw_log = <<>>
    /\ us_distances = MockDistances
    /\ snapshot = [held |-> FALSE, shared |-> FALSE, map |-> EmptyMap]
    /\ call = [op |-> "__init__", args |-> <<>>]
    /\ ret = None
    /\ raised = "none"
    /\ ncalls = 0
    /\ files = NoFiles
    /\ saved = None
    /\ NoScript
    /\ NoVision

PersistNext ==
    \/ SaveMap
    \/ LoadMap
    \/ ClearMap
    \/ MarkFreeSpace
    \/ UpdateMapFromScan

PersistSpec == PersistInit /\ [][PersistNext]_vars

\* The ray walk alone, on the grid as left by the walks before it.
WalkNext == MarkFreeSpaceAny

WalkSpec == Init /\ [][WalkNext]_vars

-----------------------------------------------------------------------------
(* obstacle_avoidance.py: obstacle_avoidance_loop(hw, run_time), one action *)
(* per statement that reaches the hardware or leaves the loop.             *)

\* The distance below which the drive loop treats a reading as an obstacle.
AVOID_THRESHOLD == 20
FORWARD_POWER == 30
TURN_POWER == 30

\* The number of motor commands after which the loop is not entered again.
MaxMotors == 6

\* run_time: 0 stands for None and 0, both false in "if run_time and ...".
RunTimes == {0, 10, 60}

\* What the sensor may return to the loop, in cm.
AvoidDistances == {5, AVOID_THRESHOLD - 1, AVOID_THRESHOLD, 50}

\* The positions inside the try block (the while loop and its body).
TryBody == {"check_time", "read", "stop_first", "backward", "stop_backup",
            "turn", "stop_turn", "forward", "sleep"}

\* A motor command as the hardware interface receives it.
Motor(op, power) == [op |-> op, power |-> power]

\* obstacle_avoidance_loop is called: the lines before the try block.
AvoidStart ==
    \E run_time \in RunTimes :
        /\ pc = "idle"
        /\ call' = [op |-> "obstacle_avoidance_loop", args |-> <<run_time>>]
        /\ pc' = "check_time"
        /\ UNCHANGED <<ret, raised, motors, status, loop_i, mapper, disk, vision>>

\* The head of the while loop: break when the run time has elapsed (the
\* clock is the environment's), else go on to the reading.
AvoidCheckTime ==
    /\ pc = "check_time"
    /\ \/ /\ call.args[1] # 0
          /\ pc' = "finally"
       \/ /\ Len(motors) < MaxMotors
          /\ pc' = "read"
    /\ UNCHANGED <<call, ret, raised, motors, status, loop_i, mapper, disk, vision>>

\* The reading and the test "distance < OBSTACLE_THRESHOLD".
AvoidRead ==
    \E distance \in AvoidDistances :
        /\ pc = "read"
        /\ ret' = distance
        /\ pc' = IF distance < AVOID_THRESHOLD THEN "stop_first" ELSE "forward"
        /\ UNCHANGED <<call, raised, motors, status, loop_i, mapper, disk, vision>>

\* The reading raises: no except clause matches, the finally clause runs.
AvoidReadFails ==
    /\ pc = "read"
    /\ raised' = "OSError"
    /\ pc' = "finally"
    /\ UNCHANGED <<call, ret, motors, status, loop_i, mapper, disk, vision>>

AvoidStopFirst ==
    /\ pc = "stop_first"
    /\ motors' = Append(motors, Motor("stop", 0))
    /\ pc' = "backward"
    /\ UNCHANGED <<call, ret, raised, status, loop_i, mapper, disk, vision>>

AvoidBackward ==
    /\ pc = "backward"
    /\ motors' = Append(motors, Motor("backward", FORWARD_POWER))
    /\ pc' = "stop_backup"
    /\ UNCHANGED <<call, ret, raised, status, loop_i, mapper, disk, vision>>

AvoidStopBackup ==
    /\ pc = "stop_backup"
    /\ motors' = Append(motors, Motor("stop", 0))
    /\ pc' = "turn"
    /\ UNCHANGED <<call, ret, raised, status, loop_i, mapper, disk, vision>>

\* direction = random.choice(['left', 'right']) and the turn command.
AvoidTurn ==
    \E direction \in {"left", "right"} :
        /\ pc = "turn"
        /\ motors' = Append(motors, Motor(IF direction = "left" THEN "turn_left"
                                                               ELSE "turn_right",
                                         TURN_POWER))
        /\ pc' = "stop_turn"
        /\ UNCHANGED <<call, ret, raised, status, loop_i, mapper, disk, vision>>

AvoidStopTurn ==
    /\ pc = "stop_turn"
    /\ motors' = Append(motors, Motor("stop", 0))
    /\ pc' = "sleep"
    /\ UNCHANGED <<call, ret, raised, status, loop_i, mapper, disk, vision>>

AvoidForward ==
    /\ pc = "forward"
    /\ motors' = Append(motors, Motor("forward", FORWARD_POWER))
    /\ pc' = "sleep"
    /\ UNCHANGED <<call, ret, raised, status, loop_i, mapper, disk, vision>>

\* time.sleep(CHECK_INTERVAL), then the loop again.
AvoidSleep ==
    /\ pc = "sleep"
    /\ pc' = "check_time"
    /\ UNCHANGED <<call, ret, raised, motors, status, loop_i, mapper, disk, vision>>

\* Ctrl+C at any point of the try block, the sleeps between two commands
\* (after the back-up or the turn command) included.
AvoidInterrupt ==
    /\ pc \in TryBody
    /\ raised' = "KeyboardInterrupt"
    /\ pc' = "except"
    /\ UNCHANGED <<call, ret, motors, status, loop_i, mapper, disk, vision>>

\* except KeyboardInterrupt: the exception is handled.
AvoidExcept ==
    /\ pc = "except"
    /\ raised' = "none"
    /\ pc' = "finally"
    /\ UNCHANGED <<call, ret, motors, status, loop_i, mapper, disk, vision>>

\* The finally clause as it would be without hw['stop']().
AvoidFinally_no_stop ==
    /\ pc = "finally"
    /\ pc' = "done"
    /\ UNCHANGED <<call, ret, raised, motors, status, loop_i, mapper, disk, vision>>

\* finally: hw['stop'](); the function returns, or the exception in flight
\* (raised) goes to the caller.
AvoidFinally ==
    /\ pc = "finally"
    /\ motors' = Append(motors, Motor("stop", 0))
    /\ pc' = "done"
    /\ UNCHANGED <<call, ret, raised, status, loop_i, mapper, disk, vision>>

\* Ctrl+C while the except or the finally clause runs, before hw['stop']():
\* the function is left at once.
AvoidInterruptHandler ==
    /\ pc \in {"except", "finally"}
    /\ raised' = "KeyboardInterrupt"
    /\ pc' = "aborted"
    /\ UNCHANGED <<call, ret, motors, status, loop_i, mapper, disk, vision>>

AvoidNext ==
    \/ AvoidStart
    \/ AvoidCheckTime
    \/ AvoidRead
    \/ AvoidReadFails
    \/ AvoidStopFirst
    \/ AvoidBackward
    \/ AvoidStopBackup
    \/ AvoidTurn
    \/ AvoidStopTurn
    \/ AvoidForward
    \/ AvoidSleep
    \/ AvoidInterrupt
    \/ AvoidExcept
    \/ AvoidFinally
    \/ AvoidInterruptHandler

AvoidSpec == Init /\ [][AvoidNext]_vars

-----------------------------------------------------------------------------
(* object_detection.py: VisionOverride. Timestamps are whole seconds.      *)

\* The seconds a stop sign holds the car: the 2.0 of "now + 2.0".
STOP_HOLD == 2

\* The number of update calls made on one VisionOverride object.
MaxUpdates == 2

\* The timestamps a caller passes to update as now, in any order.
Times == {0, 1, 3}

\* The timestamps a caller passes to should_stop.
QueryTimes == 0..5

\* update as it would be if a stop sign restarted the hold from now.
update_restart(self, person, stop_sign, now) ==
    [person_present |-> person,
     stop_until_ts |-> IF stop_sign THEN now + STOP_HOLD ELSE self.stop_until_ts]

\* VisionOverride.update with now given: the fields after the call.
update(self, person, stop_sign, now) ==
    [person_present |-> person,
     stop_until_ts |-> IF stop_sign
                       THEN Max(self.stop_until_ts, now + STOP_HOLD)
                       ELSE self.stop_until_ts]

\* VisionOverride.should_stop with now given.
should_stop(self, now) == self.person_present \/ (now < self.stop_until_ts)

\* The VisionOverride object.
Override == [person_present |-> person_present, stop_until_ts |-> stop_until_ts]

VisionUpdate ==
    \E person \in BOOLEAN, stop_sign \in BOOLEAN, now \in Times :
        LET r == update(Override, person, stop_sign, now)
        IN  /\ Len(updates) < MaxUpdates
            /\ person_present' = r.person_present
            /\ stop_until_ts' = r.stop_until_ts
            /\ updates' = Append(updates, [person_present |-> person,
                                           stop_sign_present |-> stop_sign,
                                           now |-> now])
            /\ call' = [op |-> "update", args |-> <<person, stop_sign, now>>]
            /\ ret' = None
            /\ raised' = "none"
            /\ UNCHANGED <<mapper, disk, scripts>>

VisionShouldStop ==
    \E now \in QueryTimes :
        /\ call' = [op |-> "should_stop", args |-> <<now>>]
        /\ ret' = should_stop(Override, now)
        /\ raised' = "none"
        /\ UNCHANGED <<mapper, disk, scripts, vision>>

VisionNext ==
    \/ VisionUpdate
    \/ VisionShouldStop

VisionSpec == Init /\ [][VisionNext]_vars

-----------------------------------------------------------------------------
(* test_locomotion.py: main(), with the hardware interface that            *)
(* hardware_mock.get_hardware returns.                                     *)

\* The hardware get_hardware can find: none (PC), PiCar-X, PiCar-4WD.
HardwareTypes == {"mock", "picar-x", "picar-4wd"}

\* The dictionary get_hardware returns, by the kind of object under each
\* key: hw['forward'] and hw['stop'] are functions (lambdas) in all three.
get_hardware(hardware_type) ==
    [forward |-> "function",
     stop |-> "function",
     is_mock |-> (hardware_type = "mock"),
     hardware_type |-> hardware_type]

\* The attributes an object of each kind has: a function has no stop.
HasAttr(kind, name) ==
    CASE kind = "function" -> FALSE
      [] kind = "MockForward" -> name \in {"forward", "backward", "stop",
                                           "turn_left", "turn_right"}
      [] OTHER -> FALSE

\* The iterations of the loop of test_obstacle_avoidance.
AVOID_TEST_ROUNDS == 5

\* The positions of main inside its try block.
LocoTryBody == {"servo_test", "ultrasonic_test", "servo_scan", "t_read",
                "t_stop_first", "t_backward", "t_stop_backup", "t_turn",
                "t_stop_turn", "t_forward", "t_stop_forward", "t_sleep",
                "movement_test", "m_forward", "m_stop", "report"}

\* The positions where a test step reads the sensor or moves the servo.
LocoHardwareSteps == {"servo_test", "ultrasonic_test", "servo_scan", "t_read"}

\* main() is started: hw = get_hardware().
LocoStart ==
    \E hardware_type \in HardwareTypes :
        /\ pc = "idle"
        /\ call' = [op |-> "main", args |-> <<get_hardware(hardware_type)>>]
        /\ pc' = "servo_test"
        /\ UNCHANGED <<ret, raised, motors, status, loop_i, mapper, disk, vision>>

\* test_servo_movement, test_ultrasonic_sensor and test_servo_scan: no motor
\* command.
LocoComponentTest ==
    /\ pc \in {"servo_test", "ultrasonic_test", "servo_scan"}
    /\ pc' = CASE pc = "servo_test" -> "ultrasonic_test"
               [] pc = "ultrasonic_test" -> "servo_scan"
               [] OTHER -> "t_read"
    /\ UNCHANGED <<call, ret, raised, motors, status, loop_i, mapper, disk, vision>>

\* test_obstacle_avoidance: the head of the for loop, the reading and the
\* test against obstacle_threshold.
LocoAvoidRead ==
    /\ pc = "t_read"
    /\ IF loop_i < AVOID_TEST_ROUNDS
       THEN \E distance \in AvoidDistances :
               /\ ret' = distance
               /\ loop_i' = loop_i + 1
               /\ pc' = IF distance < AVOID_THRESHOLD THEN "t_stop_first"
                                                       ELSE "t_forward"
       ELSE /\ pc' = "movement_test"
            /\ UNCHANGED <<ret, loop_i>>
    /\ UNCHANGED <<call, raised, motors, status, mapper, disk, vision>>

LocoAvoidStopFirst ==
    /\ pc = "t_stop_first"
    /\ motors' = Append(motors, Motor("stop", 0))
    /\ pc' = "t_backward"
    /\ UNCHANGED <<call, ret, raised, status, loop_i, mapper, disk, vision>>

LocoAvoidBackward ==
    /\ pc = "t_backward"
    /\ motors' = Append(motors, Motor("backward", 30))
    /\ pc' = "t_stop_backup"
    /\ UNCHANGED <<call, ret, raised, status, loop_i, mapper, disk, vision>>

LocoAvoidStopBackup ==
    /\ pc = "t_stop_backup"
    /\ motors' = Append(motors, Motor("stop", 0))
    /\ pc' = "t_turn"
    /\ UNCHANGED <<call, ret, raised, status, loop_i, mapper, disk, vision>>

LocoAvoidTurn ==
    \E direction \in {"left", "right"} :
        /\ pc = "t_turn"
        /\ motors' = Append(motors, Motor(IF direction = "left" THEN "turn_left"
                                                               ELSE "turn_right",
                                         30))
        /\ pc' = "t_stop_turn"
        /\ UNCHANGED <<call, ret, raised, status, loop_i, mapper, disk, vision>>

LocoAvoidStopTurn ==
    /\ pc = "t_stop_turn"
    /\ motors' = Append(motors, Motor("stop", 0))
    /\ pc' = "t_sleep"
    /\ UNCHANGED <<call, ret, raised, status, loop_i, mapper, disk, vision>>

LocoAvoidForward ==
    /\ pc = "t_forward"
    /\ motors' = Append(motors, Motor("forward", 30))
    /\ pc' = "t_stop_forward"
    /\ UNCHANGED <<call, ret, raised, status, loop_i, mapper, disk, vision>>

LocoAvoidStopForward ==
    /\ pc = "t_stop_forward"
    /\ motors' = Append(motors, Motor("stop", 0))
    /\ pc' = "t_sleep"
    /\ UNCHANGED <<call, ret, raised, status, loop_i, mapper, disk, vision>>

LocoAvoidSleep ==
    /\ pc = "t_sleep"
    /\ pc' = "t_read"
    /\ UNCHANGED <<call, ret, raised, motors, status, loop_i, mapper, disk, vision>>

\* The movement test: on real hardware only, and only if the user says y.
LocoMovementTest ==
    /\ pc = "movement_test"
    /\ IF call.args[1].is_mock
       THEN pc' = "report"
       ELSE \E response \in {"y", "n"} :
               pc' = IF response = "y" THEN "m_forward" ELSE "report"
    /\ UNCHANGED <<call, ret, raised, motors, status, loop_i, mapper, disk, vision>>

\* test_forward_movement: hw['forward'](50), the sleep, hw['stop']().
LocoMoveForward ==
    /\ pc = "m_forward"
    /\ motors' = Append(motors, Motor("forward", 50))
    /\ pc' = "m_stop"
    /\ UNCHANGED <<call, ret, raised, status, loop_i, mapper, disk, vision>>

LocoMoveStop ==
    /\ pc = "m_stop"
    /\ motors' = Append(motors, Motor("stop", 0))
    /\ pc' = "report"
    /\ UNCHANGED <<call, ret, raised, status, loop_i, mapper, disk, vision>>

\* The closing prints: main returns and the process exits with status 0.
LocoReport ==
    /\ pc = "report"
    /\ pc' = "exited"
    /\ status' = Some(0)
    /\ UNCHANGED <<call, ret, raised, motors, loop_i, mapper, disk, vision>>

\* Ctrl+C at any point of the try block.
LocoInterrupt ==
    /\ pc \in LocoTryBody
    /\ raised' = "KeyboardInterrupt"
    /\ pc' = "handler_interrupt"
    /\ UNCHANGED <<call, ret, motors, status, loop_i, mapper, disk, vision>>

\* A test step raises while it talks to the sensor or the servo.
LocoError ==
    /\ pc \in LocoHardwareSteps
    /\ raised' = "Exception"
    /\ pc' = "handler_error"
    /\ UNCHANGED <<call, ret, motors, status, loop_i, mapper, disk, vision>>

\* The two except clauses: hw['forward'].stop(), then sys.exit(code). When
\* hw['forward'] has no attribute stop the attribute lookup raises
\* AttributeError inside the handler: nothing reaches the hardware, the
\* exception leaves main and the interpreter exits with status 1.
LocoHandler ==
    /\ pc \in {"handler_interrupt", "handler_error"}
    /\ IF HasAttr(call.args[1].forward, "stop")
       THEN /\ motors' = Append(motors, Motor("stop", 0))
            /\ status' = Some(IF pc = "handler_interrupt" THEN 0 ELSE 1)
            /\ raised' = "SystemExit"
       ELSE /\ motors' = motors
            /\ status' = Some(1)
            /\ raised' = "AttributeError"
    /\ pc' = "exited"
    /\ UNCHANGED <<call, ret, loop_i, mapper, disk, vision>>

LocoNext ==
    \/ LocoStart
    \/ LocoComponentTest
    \/ LocoAvoidRead
    \/ LocoAvoidStopFirst
    \/ LocoAvoidBackward
    \/ LocoAvoidStopBackup
    \/ LocoAvoidTurn
    \/ LocoAvoidStopTurn
    \/ LocoAvoidForward
    \/ LocoAvoidStopForward
    \/ LocoAvoidSleep
    \/ LocoMovementTest
    \/ LocoMoveForward
    \/ LocoMoveStop
    \/ LocoReport
    \/ LocoInterrupt
    \/ LocoError
    \/ LocoHandler

LocoSpec == Init /\ [][LocoNext]_vars

-----------------------------------------------------------------------------
(* Properties *)

Rows == 0 .. MAP_SIZE - 1
Cols == 0 .. MAP_SIZE - 1

\* The pose a call with the pose arguments p works on.
PoseX(p) == Default(p[1], car_x)
PoseY(p) == Default(p[2], car_y)
PoseAngle(p) == Default(p[3], car_angle)

\* A cell going from state a to state b gains certainty (or stays).
MonotoneStep(a, b) ==
    \/ a = b
    \/ a = UNKNOWN /\ b \in {FREE, OCCUPIED}
    \/ a = FREE /\ b = OCCUPIED

\* C1: a call of update_map_from_scan or mark_free_space changes a cell only
\* from Unknown to Free, from Unknown to Occupied or from Free to Occupied: an
\* Occupied cell stays Occupied and a Free cell never returns to Unknown.
C1_GridMonotone ==
    [][call'.op \in {"update_map_from_scan", "mark_free_space"} =>
        \A y \in Rows :
            \/ occupancy_map'[y] = occupancy_map[y]
            \/ \A x \in Cols : MonotoneStep(occupancy_map[y][x], occupancy_map'[y][x])]_vars

\* An obstacle at (55, 50) found by the first sample is still there after the
\* ray of the second sample to (60, 50) has passed over it.
C1_Witness ==
    /\ call.op = "update_map_from_scan"
    /\ call.args = <<<<<<0, Cm(5)>>, <<0, Cm(10)>>>>, NoPose>>
    /\ car_x = 50 /\ car_y = 50 /\ car_angle = 0
    /\ occupancy_map[50][55] = OCCUPIED
    /\ occupancy_map[50][56] = FREE
    /\ occupancy_map[50][60] = OCCUPIED

\* C2: after any sequence of update_car_position calls the position is inside
\* the grid and the heading is in [0, 360).
C2_PoseInvariant ==
    /\ car_x \in 0 .. MAP_SIZE - 1
    /\ car_y \in 0 .. MAP_SIZE - 1
    /\ car_angle \in 0 .. 359

\* A left turn from heading 0 and a move far beyond the grid's edge.
C2_Witness ==
    /\ call.op = "update_car_position"
    /\ call.args = <<Cm(1000), -90>>
    /\ car_y = 0
    /\ car_angle = 270
\* The gate of the scan update as the specification words it.
Accepted(distance) ==
    /\ 0 < distance
    /\ distance < Cm(MAX_DISTANCE)
    /\ distance <= Cm(OBSTACLE_THRESHOLD)

\* The rounded cell of a sample seen from the pose (cx, cy, ca), in the grid
\* or not.
IdealCell(angle_deg, distance, cx, cy, ca) ==
    <<RoundSum(cx, MulCos(distance, ca - angle_deg)),
      RoundSum(cy, MulSin(distance, ca - angle_deg))>>

Sgn(v) == IF v > 0 THEN 1 ELSE IF v < 0 THEN -1 ELSE 0

\* The cells of the line from S to H, H excluded: written out for a line along
\* an axis or a diagonal, the cells the walk visits otherwise.
LineCells(S, H) ==
    LET dx == Abs(H[1] - S[1])
        dy == Abs(H[2] - S[2])
        walk == ray_loop(EmptyMap, S[1], S[2], H[1], H[2]).cells
    IN  IF dx = 0 \/ dy = 0 \/ dx = dy
        THEN {<<S[1] + k * Sgn(H[1] - S[1]), S[2] + k * Sgn(H[2] - S[2])>> :
                 k \in 0 .. Max(dx, dy) - 1}
        ELSE {walk[i] : i \in 1 .. Len(walk)}

\* m2 is the grid m after the ray from S to the hit cell H: H is Occupied,
\* the cells of the line are Free unless they were Occupied, and every other
\* cell is as in m.
IsAfterRay(m2, m, S, H) ==
    LET line == LineCells(S, H)
        rows == {c[2] : c \in line \cup {H}}
    IN  /\ \A y \in Rows \ rows : m2[y] = m[y]
        /\ \A y \in rows : \A x \in Cols :
             m2[y][x] = IF <<x, y>> = H THEN OCCUPIED
                        ELSE IF <<x, y>> \in line /\ m[y][x] # OCCUPIED THEN FREE
                        ELSE m[y][x]

\* C3: one accepted sample with an in-grid hit cell H other than the robot's
\* cell S sets the cells of the line from S to H (S included, H excluded) to
\* Free unless they are Occupied, sets H to Occupied and leaves every other
\* cell unchanged; from (50,50) to (50,60) on an all-Unknown grid, cells
\* (50,50)..(50,59) become Free and (50,60) becomes Occupied.
C3_RayUpdate ==
    [][call'.op = "update_map_from_scan" /\ Len(call'.args[1]) = 1 =>
        LET sample == call'.args[1][1]
            p == call'.args[2]
            S == <<PoseX(p), PoseY(p)>>
            H == IdealCell(sample[1], sample[2], S[1], S[2], PoseAngle(p))
        IN  /\ (Accepted(sample[2]) /\ InGrid(S[1], S[2]) /\ InGrid(H[1], H[2]) /\ H # S)
                => IsAfterRay(occupancy_map', occupancy_map, S, H)
            /\ (occupancy_map = EmptyMap /\ S = <<50, 50>> /\ H = <<50, 60>>
                    /\ Accepted(sample[2]))
                => occupancy_map' =
                       [y \in Rows |-> [x \in Cols |->
                           IF x = 50 /\ y \in 50 .. 59 THEN FREE
                           ELSE IF x = 50 /\ y = 60 THEN OCCUPIED
                           ELSE UNKNOWN]]]_vars

\* The ray from (50,50) to (50,60): a sample 10 cm to the robot's left.
C3_Witness ==
    /\ call.op = "update_map_from_scan"
    /\ call.args = <<<<<<-90, Cm(10)>>>>, NoPose>>
    /\ car_x = 50 /\ car_y = 50 /\ car_angle = 0
    /\ occupancy_map[50][50] = FREE
    /\ occupancy_map[59][50] = FREE
    /\ occupancy_map[60][50] = OCCUPIED
    /\ occupancy_map[61][50] = UNKNOWN
    /\ ret = 1
AcceptedSample(sample) == Accepted(sample[2])

\* C4: a second update_map_from_scan with the same sample list and pose
\* leaves the grid as the first call left it and returns 0.
C4_ScanIdempotent ==
    [][call'.op = "update_map_from_scan" =>
        LET p == call'.args[2]
            again == update_map_from_scan(occupancy_map', call'.args[1],
                                          PoseX(p), PoseY(p), PoseAngle(p))
        IN  /\ again.map = occupancy_map'
            /\ again.obstacles_found = 0
            /\ call = call' => (occupancy_map' = occupancy_map /\ ret' = 0)]_vars

\* A list with two hits, given again: nothing is new.
C4_Witness ==
    /\ call.op = "update_map_from_scan"
    /\ call.args = <<<<<<0, Cm(10)>>, <<0, Cm(5)>>>>, NoPose>>
    /\ car_x = 50 /\ car_y = 50 /\ car_angle = 0
    /\ occupancy_map[50][60] = OCCUPIED
    /\ occupancy_map[50][55] = OCCUPIED
    /\ ret = 0

\* C5: update_map_from_scan rasterizes a sample only if 0 < distance < 100
\* and distance <= 80; the other samples change no cell and do not count.
C5_Gating ==
    [][call'.op = "update_map_from_scan" =>
        LET p == call'.args[2]
            kept == SelectSeq(call'.args[1], AcceptedSample)
            r == update_map_from_scan(occupancy_map, kept,
                                      PoseX(p), PoseY(p), PoseAngle(p))
        IN  /\ kept = <<>> => (occupancy_map' = occupancy_map /\ ret' = 0)
            /\ occupancy_map' = r.map
            /\ ret' = r.obstacles_found]_vars

\* Seen from (5,5) at heading 45, the 80 cm sample marks (62,62); the 85 cm
\* sample, whose cell (65,65) is in the grid, marks nothing.
C5_Witness ==
    /\ call.op = "update_map_from_scan"
    /\ call.args = <<<<<<0, Cm(80)>>, <<0, Cm(85)>>>>, CornerPose>>
    /\ occupancy_map[62][62] = OCCUPIED
    /\ occupancy_map[63][63] = UNKNOWN
    /\ occupancy_map[65][65] = UNKNOWN
    /\ ret = 1

\* C6: update_map_from_scan returns the number of cells that are Occupied
\* after the call and were not Occupied before it.
C6_ObstacleCount ==
    [][call'.op = "update_map_from_scan" =>
        LET changed == {y \in Rows : occupancy_map'[y] # occupancy_map[y]}
        IN  ret' = Cardinality({c \in Cols \X changed :
                                   /\ occupancy_map'[c[2]][c[1]] = OCCUPIED
                                   /\ occupancy_map[c[2]][c[1]] # OCCUPIED})]_vars

\* Two samples of one call hit the same cell: one new obstacle.
C6_Witness ==
    /\ call.op = "update_map_from_scan"
    /\ call.args = <<<<<<0, Cm(10)>>, <<0, Cm(10)>>>>, NoPose>>
    /\ car_x = 50 /\ car_y = 50 /\ car_angle = 0
    /\ occupancy_map[50][60] = OCCUPIED
    /\ ret = 1

\* The samples of a list, seen from the pose arguments p, whose rounded cell
\* lies in the grid.
InsideSamples(scan_data, p) ==
    LET Inside(sample) ==
            LET c == IdealCell(sample[1], sample[2], PoseX(p), PoseY(p), PoseAngle(p))
            IN  InGrid(c[1], c[2])
    IN  SelectSeq(scan_data, Inside)

\* C7: polar_to_cartesian returns the rounded cell when it is in the grid and
\* None otherwise; update_map_from_scan skips a sample for which it returns
\* None, writes no cell for it and goes on with the remaining samples.
C7_OutOfBounds ==
    [][/\ call'.op = "polar_to_cartesian" =>
            LET p == call'.args[3]
                c == IdealCell(call'.args[1], call'.args[2],
                               PoseX(p), PoseY(p), PoseAngle(p))
            IN  ret' = IF 0 <= c[1] /\ c[1] < MAP_SIZE /\ 0 <= c[2] /\ c[2] < MAP_SIZE
                       THEN c ELSE None
       /\ call'.op = "update_map_from_scan" =>
            LET p == call'.args[2]
                inside == InsideSamples(call'.args[1], p)
                r == update_map_from_scan(occupancy_map, inside,
                                          PoseX(p), PoseY(p), PoseAngle(p))
            IN  /\ inside = <<>> => (occupancy_map' = occupancy_map /\ ret' = 0)
                /\ occupancy_map' = r.map
                /\ ret' = r.obstacles_found]_vars

\* The 60 cm sample ahead of (50,50) falls outside the grid and marks
\* nothing; the sample after it is mapped.
C7_Witness ==
    /\ call.op = "update_map_from_scan"
    /\ call.args = <<<<<<0, Cm(60)>>, <<-90, Cm(10)>>>>, NoPose>>
    /\ car_x = 50 /\ car_y = 50 /\ car_angle = 0
    /\ occupancy_map[50][51] = UNKNOWN
    /\ occupancy_map[50][99] = UNKNOWN
    /\ occupancy_map[60][50] = OCCUPIED
    /\ ret = 1

\* The unit step of a heading that is a multiple of 90 degrees.
DirX(h) == IF h = 0 THEN 1 ELSE IF h = 180 THEN -1 ELSE 0
DirY(h) == IF h = 90 THEN 1 ELSE IF h = 270 THEN -1 ELSE 0

\* C8: polar_to_cartesian(0, d, P) with d > 0 yields the cell d ahead of P
\* along its heading when that cell is in the grid and None otherwise: for a
\* whole number of centimetres, (x+d, y) at heading 0, (x, y+d) at 90,
\* (x-d, y) at 180 and (x, y-d) at 270.
C8_ForwardTransform ==
    (call.op = "polar_to_cartesian" /\ call.args[1] = 0 /\ call.args[2] > 0) =>
        LET p == call.args[3]
            d == call.args[2]
            h == PoseAngle(p) % 360
            cell == IF h % 90 = 0 /\ d % 10 = 0
                    THEN <<PoseX(p) + (d \div 10) * DirX(h),
                           PoseY(p) + (d \div 10) * DirY(h)>>
                    ELSE IdealCell(0, d, PoseX(p), PoseY(p), PoseAngle(p))
        IN  ret = IF InGrid(cell[1], cell[2]) THEN cell ELSE None

\* Ten centimetres ahead of (50,50) at heading 90 is (50,60).
C8_Witness ==
    /\ call.op = "polar_to_cartesian"
    /\ call.args = <<0, Cm(10), NoPose>>
    /\ car_x = 50 /\ car_y = 50 /\ car_angle = 90
    /\ ret = <<50, 60>>

\* A coordinate kept within [0, MAP_SIZE - 1].
Clamped(v) == IF v < 0 THEN 0 ELSE IF v > MAP_SIZE - 1 THEN MAP_SIZE - 1 ELSE v

\* C9: update_car_position first sets the heading to (heading + delta) mod
\* 360 and then moves along the new heading; from (50,50,0),
\* update_car_position(10, 0) yields (60,50,0) and update_car_position(10, 90)
\* yields heading 90 and position (50,60).
C9_RotateThenTranslate ==
    [][call'.op = "update_car_position" =>
        LET d == call'.args[1]
            delta == call'.args[2]
            h == (car_angle + delta) % 360
        IN  /\ car_angle' = h
            /\ (d > 0 /\ d % 10 = 0 /\ h % 90 = 0) =>
                  /\ car_x' = Clamped(car_x + (d \div 10) * DirX(h))
                  /\ car_y' = Clamped(car_y + (d \div 10) * DirY(h))
            /\ (car_x = 50 /\ car_y = 50 /\ car_angle = 0 /\ d = Cm(10) /\ delta = 0) =>
                  (car_x' = 60 /\ car_y' = 50 /\ car_angle' = 0)
            /\ (car_x = 50 /\ car_y = 50 /\ car_angle = 0 /\ d = Cm(10) /\ delta = 90) =>
                  (car_x' = 50 /\ car_y' = 60 /\ car_angle' = 90)]_vars

\* The quarter turn and the move of the specification's example.
C9_Witness ==
    /\ call.op = "update_car_position"
    /\ call.args = <<Cm(10), 90>>
    /\ car_x = 50 /\ car_y = 60 /\ car_angle = 90
    /\ ncalls = 1

\* C10: a translation that would leave the grid is clamped to [0, N-1] on
\* each axis by itself, the other axis keeping its computed value;
\* update_car_position(1000, 0) from (99,50,0) yields x = 99 and y = 50.
C10_PositionClamping ==
    [][(call'.op = "update_car_position" /\ call'.args[1] > 0) =>
        LET d == call'.args[1]
            raw_x == car_x + RoundSum(0, MulCos(d, car_angle'))
            raw_y == car_y + RoundSum(0, MulSin(d, car_angle'))
        IN  /\ car_x' = (IF raw_x < 0 THEN 0
                         ELSE IF raw_x > MAP_SIZE - 1 THEN MAP_SIZE - 1 ELSE raw_x)
            /\ car_y' = (IF raw_y < 0 THEN 0
                         ELSE IF raw_y > MAP_SIZE - 1 THEN MAP_SIZE - 1 ELSE raw_y)
            /\ (car_x = 99 /\ car_y = 50 /\ car_angle = 0 /\ call'.args = <<Cm(1000), 0>>) =>
                  (car_x' = 99 /\ car_y' = 50)]_vars

\* From (99,50,0) a 10 cm move after a 45 degree turn: x stays at the edge,
\* y advances by 7.
C10_Witness ==
    /\ call.op = "update_car_position"
    /\ call.args = <<Cm(10), 45>>
    /\ car_x = 99 /\ car_y = 57 /\ car_angle = 45

-----------------------------------------------------------------------------
\* C11: update_car_position with distance_cm <= 0 leaves car_x and car_y as
\* they were and changes only the heading, which becomes
\* (car_angle + delta_angle_deg) mod 360.
C11_NoTranslation ==
    [][(call'.op = "update_car_position" /\ call'.args[1] <= 0)
        => /\ car_x' = car_x
           /\ car_y' = car_y
           /\ car_angle' = (car_angle + call'.args[2]) % 360
           /\ occupancy_map' = occupancy_map]_vars

\* A call with a negative distance and a quarter turn, made away from the
\* start pose: the heading is the new one and the position is the old one.
C11_Witness ==
    /\ call.op = "update_car_position"
    /\ call.args = <<Cm(-5), 90>>
    /\ car_angle = 135
    /\ car_x = 57 /\ car_y = 57

-----------------------------------------------------------------------------
\* C12: scan_environment and update_map_from_scan never change car_x, car_y
\* or car_angle, also when update_map_from_scan is given an explicit pose,
\* and update_car_position never changes a cell of the grid.
C12_Ownership ==
    [][/\ call'.op \in {"scan_environment", "update_map_from_scan"}
            => /\ car_x' = car_x
               /\ car_y' = car_y
               /\ car_angle' = car_angle
       /\ call'.op = "update_car_position"
            => occupancy_map' = occupancy_map]_vars

\* A scan update with an explicit pose that wrote the grid, made after the
\* car had moved: the car is still where the move left it.
C12_Witness ==
    /\ call.op = "update_map_from_scan"
    /\ call.args[2] = CornerPose
    /\ ret = 1
    /\ occupancy_map # EmptyMap
    /\ car_x = 60 /\ car_y = 50 /\ car_angle = 0

-----------------------------------------------------------------------------
\* The readings of a sweep as the hardware saw them: each distance read, with
\* the bearing the servo had been sent to just before.
Readings(log) ==
    LET reads == SelectSeq([i \in DOMAIN log |-> i],
                           LAMBDA i : log[i].op = "get_distance")
    IN  [k \in DOMAIN reads |->
            <<log[reads[k] - 1].angle, log[reads[k]].distance>>]

\* 0 < distance < MAX_DISTANCE, in tenths of a centimetre.
InRange(sample) ==
    /\ sample[2][1] > 0
    /\ sample[2][1] < Cm(MAX_DISTANCE) * sample[2][2]

\* Two samples with the same bearing and the same distance.
SameSample(s1, s2) ==
    s1[1] = s2[1] /\ s1[2][1] * s2[2][2] = s2[2][1] * s1[2][2]

Occurs(sample, samples) ==
    \E i \in DOMAIN samples : SameSample(samples[i], sample)

\* C13: in scan_environment a reading is kept exactly when
\* 0 < distance < MAX_DISTANCE; a discarded reading is neither in
\* scan_history nor in the returned sequence; scan_history after the call is
\* exactly the accepted raw samples in sweep order, without interpolated
\* points, also when interpolate is True.
C13_SweepFiltering ==
    [][(call'.op = "scan_environment" /\ raised' # "ValueError")
        => LET taken == Readings(hw_log')
           IN  /\ scan_history' = SelectSeq(taken, InRange)
               /\ \A k \in DOMAIN taken :
                      ~InRange(taken[k])
                          => /\ ~Occurs(taken[k], scan_history')
                             /\ raised' = "none" => ~Occurs(taken[k], ret')
               /\ (raised' = "none" /\ ~call'.args[4])
                      => ret' = scan_history']_vars

\* An interpolating sweep over 0, 15, 30 whose middle reading was 100 cm:
\* scan_history holds the two outer samples, the result seven points.
C13_Witness ==
    /\ call.op = "scan_environment"
    /\ call.args = <<0, 30, 15, TRUE>>
    /\ raised = "none"
    /\ Len(Readings(hw_log)) = 3
    /\ Readings(hw_log)[2] = <<15, Ratio(Cm(MAX_DISTANCE), 1)>>
    /\ scan_history = <<<<0, Ratio(Cm(30), 1)>>, <<30, Ratio(Cm(30), 1)>>>>
    /\ Len(ret) = 7

-----------------------------------------------------------------------------
\* The bearings a sweep aimed the servo at, in order: every set_angle of the
\* log but the last, which returns the servo to 0.
Aimed(log) ==
    LET sets == SelectSeq(log, LAMBDA ev : ev.op = "set_angle")
    IN  [k \in 1 .. Len(sets) - 1 |-> sets[k].angle]

Increasing(bearings) ==
    \A k \in 1 .. Len(bearings) - 1 : bearings[k] < bearings[k + 1]

\* A sweep with angle_min <= angle_max and step > 0 has been made.
SweepMade(c) ==
    c.op = "scan_environment" /\ c.args[1] <= c.args[2] /\ c.args[3] > 0

\* C14 as stated: the bearings aimed at are angle_min, angle_min + step, ...
\* in increasing order, angle_min and angle_max are both among them, and none
\* is outside [angle_min, angle_max].
C14_BothEndsAimed ==
    [][SweepMade(call')
        => LET aimed == Aimed(hw_log')
               angle_min == call'.args[1]
               angle_max == call'.args[2]
               step == call'.args[3]
           IN  /\ \A k \in DOMAIN aimed : aimed[k] = angle_min + (k - 1) * step
               /\ Increasing(aimed)
               /\ \E k \in DOMAIN aimed : aimed[k] = angle_min
               /\ \E k \in DOMAIN aimed : aimed[k] = angle_max
               /\ \A k \in DOMAIN aimed :
                      angle_min <= aimed[k] /\ aimed[k] <= angle_max]_vars

\* C14, amended: the bearings aimed at are exactly angle_min + k * step for
\* k = 0 .. (angle_max - angle_min) \div step, in increasing order; angle_min
\* is the first, none is outside [angle_min, angle_max], the last is less
\* than step below angle_max, and angle_max is aimed at exactly when step
\* divides angle_max - angle_min.
C14_SweepRange ==
    [][SweepMade(call')
        => LET aimed == Aimed(hw_log')
               angle_min == call'.args[1]
               angle_max == call'.args[2]
               step == call'.args[3]
           IN  /\ Len(aimed) = ((angle_max - angle_min) \div step) + 1
               /\ \A k \in DOMAIN aimed : aimed[k] = angle_min + (k - 1) * step
               /\ Increasing(aimed)
               /\ aimed[1] = angle_min
               /\ \A k \in DOMAIN aimed :
                      angle_min <= aimed[k] /\ aimed[k] <= angle_max
               /\ angle_max - aimed[Len(aimed)] < step
               /\ (\E k \in DOMAIN aimed : aimed[k] = angle_max)
                      <=> (angle_max - angle_min) % step = 0]_vars

\* The sweep from 0 to 10 in steps of 4 aimed at 0, 4 and 8 and never at 10.
C14_Witness ==
    /\ call.op = "scan_environment"
    /\ call.args = <<0, 10, 4, FALSE>>
    /\ Aimed(hw_log) = <<0, 4, 8>>

-----------------------------------------------------------------------------
\* C15: in scan_environment every distance read comes directly after the
\* set_angle for its bearing (one read per bearing, aim before read), and
\* after the last read the servo is sent to 0, so that the last servo command
\* of a completed sweep is set_angle(0), whatever the readings were.
C15_SweepProtocol ==
    [][(call'.op = "scan_environment" /\ raised' # "ValueError")
        => LET log == hw_log'
               n == (Len(log) - 1) \div 2
               bearings == range(call'.args[1], call'.args[2] + 1, call'.args[3])
           IN  /\ Len(log) = 2 * Len(bearings) + 1
               /\ \A k \in 1 .. n :
                      /\ log[2 * k - 1].op = "set_angle"
                      /\ log[2 * k - 1].angle = bearings[k]
                      /\ log[2 * k].op = "get_distance"
                      /\ log[2 * k].distance = get_distance(us_distances, k)
               /\ log[Len(log)].op = "set_angle"
               /\ log[Len(log)].angle = 0]_vars

\* A sweep over 10, 30, 50 of which every reading was discarded: three aims
\* each followed by its read, then the return to 0.
C15_Witness ==
    /\ call.op = "scan_environment"
    /\ call.args = <<10, 50, 20, TRUE>>
    /\ scan_history = <<>>
    /\ Len(hw_log) = 7
    /\ hw_log[5].op = "set_angle" /\ hw_log[5].angle = 50
    /\ hw_log[6].op = "get_distance"
    /\ hw_log[7].op = "set_angle" /\ hw_log[7].angle = 0

-----------------------------------------------------------------------------
\* C16: interpolate_scan on an empty or single-sample input returns the input
\* unchanged, for every step; so does a sweep that interpolates fewer than
\* two accepted samples.
C16_ShortInput ==
    [][/\ (call'.op = "interpolate_scan" /\ Len(call'.args[1]) < 2)
            => /\ raised' = "none"
               /\ ret' = call'.args[1]
       /\ (/\ call'.op = "scan_environment"
           /\ call'.args[4]
           /\ raised' # "ValueError"
           /\ Len(scan_history') < 2)
            => /\ raised' = "none"
               /\ ret' = scan_history']_vars

\* interpolate_scan of a single sample with step 1 returned that sample.
C16_Witness ==
    /\ call.op = "interpolate_scan"
    /\ call.args[2] = 1
    /\ Len(call.args[1]) = 1
    /\ raised = "none"
    /\ ret = <<<<0, Ratio(Cm(10), 1)>>>>

-----------------------------------------------------------------------------
\* The sub-step and, for the pair of samples i and i + 1, the number of steps
\* of an interpolation.
SubStep(step) == Min(5, step \div 2)
Steps(samples, i, step) ==
    Abs(samples[i + 1][1] - samples[i][1]) \div SubStep(step)
Emitted(samples, i, step) == Max(0, Steps(samples, i, step) - 1)

\* Where sample i of the input is in the output: after the samples before it
\* and the points emitted for the pairs before it.
RECURSIVE Place(_, _, _)
Place(samples, i, step) ==
    IF i = 1 THEN 1
    ELSE Place(samples, i - 1, step) + 1 + Emitted(samples, i - 1, step)

\* q = d1 + (d2 - d1) * (j / steps), for distances that are ratios.
IsBetween(q, d1, d2, j, steps) ==
    q[1] * (d1[2] * d2[2] * steps)
        = q[2] * (d1[1] * d2[2] * steps + (d2[1] * d1[2] - d1[1] * d2[2]) * j)

\* out is samples with, after each sample but the last, the points of its
\* pair: the j-th at sub_step * j from the first bearing towards the second.
IsInterpolation(out, samples, step) ==
    /\ Len(out) = Place(samples, Len(samples), step)
    /\ \A i \in 1 .. Len(samples) - 1 :
          LET at == Place(samples, i, step)
              b1 == samples[i][1]
              b2 == samples[i + 1][1]
          IN  \A j \in 1 .. Emitted(samples, i, step) :
                  /\ out[at + j][1] = b1 + j * SubStep(step) * Sgn(b2 - b1)
                  /\ IsBetween(out[at + j][2], samples[i][2], samples[i + 1][2],
                               j, Steps(samples, i, step))

\* C17: for each adjacent pair (b1, d1), (b2, d2) interpolate_scan takes
\* sub_step = min(5, step // 2) and steps = |b2 - b1| // sub_step and emits
\* exactly max(0, steps - 1) points, the j-th at bearing
\* b1 + j * sub_step * sign(b2 - b1) with distance d1 + (d2 - d1) * (j / steps);
\* on (0, 10), (30, 20) with step 15 these are the bearings 5, 10, 15, 20, 25
\* with the distances 10 + 10 * j / 6.
C17_PairInterpolation ==
    [][/\ (call'.op = "interpolate_scan" /\ raised' = "none"
                /\ Len(call'.args[1]) >= 2)
            => IsInterpolation(ret', call'.args[1], call'.args[2])
       /\ (call'.op = "scan_environment" /\ raised' = "none"
                /\ call'.args[4] /\ Len(scan_history') >= 2)
            => IsInterpolation(ret', scan_history', call'.args[3])
       /\ (/\ call'.op = "interpolate_scan"
           /\ call'.args = <<<<<<0, Ratio(Cm(10), 1)>>, <<30, Ratio(Cm(20), 1)>>>>, 15>>)
            => /\ raised' = "none"
               /\ Len(ret') = 7
               /\ \A j \in 1 .. 5 :
                      /\ ret'[j + 1][1] = 5 * j
                      /\ ret'[j + 1][2][1] * 6
                             = ret'[j + 1][2][2] * (6 * Cm(10) + Cm(10) * j)]_vars

\* interpolate_scan of (0, 10), (30, 20) with step 15 has returned; the third
\* of its five points is at bearing 15 with distance 15.
C17_Witness ==
    /\ call.op = "interpolate_scan"
    /\ call.args = <<<<<<0, Ratio(Cm(10), 1)>>, <<30, Ratio(Cm(20), 1)>>>>, 15>>
    /\ Len(ret) = 7
    /\ ret[4][1] = 15
    /\ ret[4][2][1] = Cm(15) * ret[4][2][2]

-----------------------------------------------------------------------------
Bearings(samples) == [i \in DOMAIN samples |-> samples[i][1]]

\* out has strictly increasing bearings, holds the samples unchanged and in
\* order among its points, starts with the first and ends with the last of
\* them, and has no bearing outside theirs.
IsMonotoneExtension(out, samples) ==
    /\ Increasing(Bearings(out))
    /\ SelectSeq(out, LAMBDA q : \E i \in DOMAIN samples : samples[i] = q)
           = samples
    /\ samples # <<>>
           => /\ out[1] = samples[1]
              /\ out[Len(out)] = samples[Len(samples)]
              /\ \A k \in DOMAIN out :
                     /\ samples[1][1] <= out[k][1]
                     /\ out[k][1] <= samples[Len(samples)][1]

\* C18: for an input with strictly increasing bearings and step >= 2, the
\* output of interpolate_scan has strictly increasing bearings, contains
\* each original sample unchanged and in order, starts with the first and
\* ends with the last original sample, and has no bearing outside
\* [first, last].
C18_MonotoneEndpoints ==
    [][/\ (/\ call'.op = "interpolate_scan"
           /\ call'.args[2] >= 2
           /\ Increasing(Bearings(call'.args[1])))
            => /\ raised' = "none"
               /\ IsMonotoneExtension(ret', call'.args[1])
       /\ (/\ call'.op = "scan_environment"
           /\ call'.args[4]
           /\ call'.args[3] >= 2)
            => /\ raised' = "none"
               /\ Increasing(Bearings(scan_history'))
               /\ IsMonotoneExtension(ret', scan_history')]_vars

\* interpolate_scan of samples at -15, 0 and 45 with step 15 has returned 13
\* points, the sample at 0 the fourth of them.
C18_Witness ==
    /\ call.op = "interpolate_scan"
    /\ call.args[2] = 15
    /\ Bearings(call.args[1]) = <<-15, 0, 45>>
    /\ Len(ret) = 13
    /\ ret[1] = call.args[1][1]
    /\ ret[4] = call.args[1][2]
    /\ ret[13] = call.args[1][3]

-----------------------------------------------------------------------------
\* The cells the walk of mark_free_space visits before its end point.
Walked(a) ==
    LET walk == ray_loop(EmptyMap, a[1], a[2], a[3], a[4]).cells
    IN  {walk[k] : k \in DOMAIN walk}

LeavesGrid(a) == \E c \in Walked(a) : ~InGrid(c[1], c[2])

\* C19 as stated: a grid write with a coordinate outside [0, N), as for a
\* ray that starts outside the grid, is rejected with an assertion or an
\* exception instead of being skipped.
C19_FailFast ==
    [][(call'.op = "mark_free_space" /\ LeavesGrid(call'.args))
        => raised' # "none"]_vars

\* C19, amended: mark_free_space tests every cell of its walk against the
\* grid before it writes; a cell outside [0, N) is skipped without an
\* exception and without a write to any other cell, and the cells of the
\* same walk that are in the grid are still set to Free unless Occupied.
C19_SilentSkip ==
    [][(call'.op = "mark_free_space" /\ LeavesGrid(call'.args))
        => LET inside == {c \in Walked(call'.args) : InGrid(c[1], c[2])}
               rows == {c[2] : c \in inside}
           IN  /\ raised' = "none"
               /\ \A y \in Rows \ rows : occupancy_map'[y] = occupancy_map[y]
               /\ \A y \in rows : \A x \in Cols :
                      occupancy_map'[y][x] =
                          IF <<x, y>> \in inside /\ occupancy_map[y][x] # OCCUPIED
                          THEN FREE
                          ELSE occupancy_map[y][x]]_vars

\* The walk from (-3,50) to (4,52) has been made: no exception, its cells
\* left of the grid are skipped, its cell (0,51) is Free and the other end
\* of row 51 is untouched.
C19_Witness ==
    /\ call.op = "mark_free_space"
    /\ call.args = <<-3, 50, 4, 52>>
    /\ raised = "none"
    /\ <<-1, 51>> \in Walked(call.args)
    /\ occupancy_map[51][0] = FREE
    /\ occupancy_map[51][MAP_SIZE - 1] = UNKNOWN

-----------------------------------------------------------------------------
\* C20: get_map returns a copy that equals the grid at the time of the call
\* and is independent of it afterwards: later calls of the mapper
\* (update_map_from_scan, mark_free_space, clear_map, ...) do not change an
\* array returned before, and a write into a returned array does not change
\* the mapper's grid.
C20_SnapshotIndependent ==
    [][/\ call'.op = "get_map"
            => /\ snapshot'.map = occupancy_map
               /\ occupancy_map' = occupancy_map
       /\ (snapshot.held /\ call'.op \notin {"get_map", "snapshot_write"})
            => snapshot'.map = snapshot.map
       /\ call'.op = "snapshot_write"
            => occupancy_map' = occupancy_map]_vars

\* A scan update has written the grid after get_map returned the empty
\* grid: the returned array is still empty.
C20_Witness ==
    /\ call.op = "update_map_from_scan"
    /\ snapshot.held
    /\ snapshot.map = EmptyMap
    /\ occupancy_map # EmptyMap

-----------------------------------------------------------------------------
\* C21: from any reachable grid, clear_map leaves every cell Unknown, also
\* the cells that were Occupied, keeps the grid N x N, and leaves car_x,
\* car_y, car_angle and scan_history unchanged.
C21_Reset ==
    [][call'.op = "clear_map"
        => /\ DOMAIN occupancy_map' = Rows
           /\ \A y \in Rows :
                  /\ DOMAIN occupancy_map'[y] = Cols
                  /\ \A x \in Cols : occupancy_map'[y][x] = UNKNOWN
           /\ car_x' = car_x
           /\ car_y' = car_y
           /\ car_angle' = car_angle
           /\ scan_history' = scan_history]_vars

\* clear_map has been called after a sweep that left three samples in
\* scan_history: the grid is all Unknown and the samples are still there.
C21_Witness ==
    /\ call.op = "clear_map"
    /\ ncalls = 2
    /\ Len(scan_history) = 3
    /\ \A y \in Rows : \A x \in Cols : occupancy_map[y][x] = UNKNOWN

-----------------------------------------------------------------------------
\* C22: for every grid (all Unknown, all Occupied or mixed), save_map
\* followed by load_map of the same file, with any grid changes or clear_map
\* in between, restores the grid cell for cell to the saved one, with the
\* same dimensions.
C22_RoundTrip ==
    [][(/\ call'.op = "load_map"
        /\ saved # None
        /\ call'.args[1] = saved[1].filename)
        => /\ raised' = "none"
           /\ occupancy_map' = saved[1].map]_vars

-----------------------------------------------------------------------------
\* C23: a positive delta_angle_deg turns the robot towards the side of the
\* positive bearings: for a pose, a bearing b and a distance d, the cell
\* polar_to_cartesian(b, d) at the pose is the cell polar_to_cartesian(0, d)
\* after update_car_position(0, b) from that pose.
C23_RightPositive ==
    [][(call'.op = "update_car_position" /\ call'.args[1] = 0)
        => \A d \in {Cm(5), Cm(10)} :
              polar_to_cartesian(call'.args[2], d, car_x, car_y, car_angle)
                 = polar_to_cartesian(0, d, car_x', car_y', car_angle')]_vars

-----------------------------------------------------------------------------
\* C28: interpolate_scan is total on its step: for every step >= 1, step = 1
\* included, and every input of at least two samples it returns a sequence
\* and raises no error.
C28_TotalOnStep ==
    [][(/\ call'.op = "interpolate_scan"
        /\ call'.args[2] >= 1
        /\ Len(call'.args[1]) >= 2)
        => raised' = "none"]_vars

-----------------------------------------------------------------------------
\* C29: the robot's own cell is never marked as an obstacle by its own scan:
\* for samples with distances > 0, distances below one cell included,
\* update_map_from_scan taken from (car_x, car_y) does not change the cell
\* (car_x, car_y) to Occupied.
C29_OwnCellNotObstacle ==
    [][(/\ call'.op = "update_map_from_scan"
        /\ \A k \in DOMAIN call'.args[1] : call'.args[1][k][2] > 0
        /\ InGrid(PoseX(call'.args[2]), PoseY(call'.args[2]))
        /\ occupancy_map[PoseY(call'.args[2])][PoseX(call'.args[2])] # OCCUPIED)
        => occupancy_map'[PoseY(call'.args[2])][PoseX(call'.args[2])]
              # OCCUPIED]_vars

-----------------------------------------------------------------------------
\* The sample list in the order given by the permutation f of its indices.
Reordered(scan_data, f) == [i \in DOMAIN scan_data |-> scan_data[f[i]]]

\* C26: a scan update does not depend on the order of its samples: from the
\* same grid and pose, every permutation of the sample list gives the grid
\* and the obstacle count that update_map_from_scan gave.
C26_OrderIndependent ==
    [][call'.op = "update_map_from_scan"
        => \A f \in Permutations(DOMAIN call'.args[1]) :
             LET p == call'.args[2]
                 r == update_map_from_scan(occupancy_map,
                                           Reordered(call'.args[1], f),
                                           PoseX(p), PoseY(p), PoseAngle(p))
             IN  /\ r.map = occupancy_map'
                 /\ r.obstacles_found = ret']_vars

\* The ray to 10 cm came first and crossed the cell at 5 cm, the hit at 5 cm
\* came second: both cells are Occupied and both hits were counted.
C26_Witness ==
    /\ call.op = "update_map_from_scan"
    /\ call.args = <<(<< <<0, Cm(10)>>, <<0, Cm(5)>> >>), NoPose>>
    /\ car_x = MAP_CENTER /\ car_y = MAP_CENTER /\ car_angle = 0
    /\ ret = 2
    /\ occupancy_map[MAP_CENTER][MAP_CENTER + 5] = OCCUPIED
    /\ occupancy_map[MAP_CENTER][MAP_CENTER + 10] = OCCUPIED

-----------------------------------------------------------------------------
\* The loop of mark_free_space run on the pair a from the grid m.
WalkOf(m, a) == ray_loop(m, a[1], a[2], a[3], a[4])

\* The positions (x, y) the loop goes through: one per iteration, then the
\* position it ends at.
PathOf(w) == Append(w.cells, <<w.x, w.y>>)

\* C27: for every pair of grid cells, equal, axis-aligned and diagonal pairs
\* included, the loop of mark_free_space ends at (x2, y2) after exactly
\* max(|x2 - x1|, |y2 - y1|) iterations, each iteration moves x and y by at
\* most 1, and every cell visited is in the bounding rectangle of the pair.
C27_WalkTerminates ==
    [][(/\ call'.op = "mark_free_space"
        /\ InGrid(call'.args[1], call'.args[2])
        /\ InGrid(call'.args[3], call'.args[4]))
        => \A a \in {call'.args} :
           \A w \in {WalkOf(occupancy_map, a)} :
           \A path \in {PathOf(w)} :
               /\ w.x = a[3] /\ w.y = a[4]
               /\ Len(w.cells) = Max(Abs(a[3] - a[1]), Abs(a[4] - a[2]))
               /\ \A k \in 1..(Len(path) - 1) :
                     /\ Abs(path[k + 1][1] - path[k][1]) <= 1
                     /\ Abs(path[k + 1][2] - path[k][2]) <= 1
               /\ \A k \in DOMAIN w.cells :
                     /\ Min(a[1], a[3]) <= w.cells[k][1]
                     /\ w.cells[k][1] <= Max(a[1], a[3])
                     /\ Min(a[2], a[4]) <= w.cells[k][2]
                     /\ w.cells[k][2] <= Max(a[2], a[4])
               /\ occupancy_map' = w.m]_vars

\* The long oblique walk from (10, 20) to (90, 70) was made after another
\* walk: its start is Free and its end, never written, is Unknown.
C27_Witness ==
    /\ call.op = "mark_free_space"
    /\ call.args = <<10, 20, 90, 70>>
    /\ ncalls = 2
    /\ occupancy_map[20][10] = FREE
    /\ occupancy_map[70][90] = UNKNOWN
    /\ Len(WalkOf(EmptyMap, call.args).cells) = 80

-----------------------------------------------------------------------------
\* The last motor command that reached the hardware.
LastMotor == IF motors = <<>> THEN "none" ELSE motors[Len(motors)].op

\* C24: on every exit path of obstacle_avoidance_loop (run time elapsed,
\* Ctrl+C at any point of an iteration, the middle of a back-up or of a turn
\* included, an exception from the sensor read) the last motor command
\* issued is stop.
C24_StoppedOnExit ==
    (pc = "done" /\ call.op = "obstacle_avoidance_loop") => LastMotor = "stop"

\* The loop was interrupted in the middle of a back-up: the command before
\* the last is the back-up, the last is the stop of the finally clause.
C24_Witness ==
    /\ pc = "done"
    /\ call.op = "obstacle_avoidance_loop"
    /\ raised = "none"
    /\ Len(motors) = 3
    /\ motors[2].op = "backward"
    /\ motors[3].op = "stop"

-----------------------------------------------------------------------------
\* The update calls made so far that reported a stop sign.
StopSignUpdates == {k \in DOMAIN updates : updates[k].stop_sign_present}

\* The timestamp of the latest of them.
LatestStopSign ==
    CHOOSE t \in {updates[k].now : k \in StopSignUpdates} :
        \A k \in StopSignUpdates : updates[k].now <= t

\* C25: after update(..., stop_sign_present=True, now=t), should_stop(now) is
\* True for t <= now < t + 2 whatever updates follow; should_stop is True
\* whenever the most recent update had person_present True; and it is False
\* when the most recent update had person_present False and now is at least
\* 2 seconds after the latest update that reported a stop sign.
C25_StopSignHold ==
    (call.op = "should_stop" /\ updates # <<>>)
        => LET now == call.args[1]
               last == updates[Len(updates)]
           IN  /\ \A k \in StopSignUpdates :
                     (updates[k].now <= now /\ now < updates[k].now + 2)
                        => ret = TRUE
               /\ last.person_present => ret = TRUE
               /\ (/\ ~last.person_present
                   /\ StopSignUpdates # {}
                   /\ now >= LatestStopSign + 2)
                     => ret = FALSE

\* A stop sign was reported at 1, then an update without one and without a
\* person: at 2 the car is still held, by the stop sign alone.
C25_Witness ==
    /\ call = [op |-> "should_stop", args |-> <<2>>]
    /\ ret = TRUE
    /\ Len(updates) = 2
    /\ updates[1] = [person_present |-> TRUE, stop_sign_present |-> TRUE, now |-> 1]
    /\ updates[2] = [person_present |-> FALSE, stop_sign_present |-> FALSE, now |-> 1]

-----------------------------------------------------------------------------
\* C30: when main() of the locomotion test is interrupted by Ctrl+C or a
\* test step raises, the handler stops the motors (a stop command reaches
\* the hardware interface that get_hardware returned) and the script then
\* exits with status 0 for an interrupt and 1 for an error.
C30_Shutdown ==
    [][(pc \in {"handler_interrupt", "handler_error"})
        => /\ motors' = Append(motors, Motor("stop", 0))
           /\ pc' = "exited"
           /\ status' = Some(IF pc = "handler_interrupt" THEN 0 ELSE 1)]_vars

=============================================================================
